---- MODULE Spec2Model ----
(***************************************************************************)
(* Model of the E2E messaging backend: X3DH agreement, the Double Ratchet  *)
(* (core_backend/double_ratchet_algorithm.py), the message handler         *)
(* (core_backend/message_handler.py), the connection registry              *)
(* (core_backend/connection_manager.py) and the websocket task             *)
(* (core_backend/message_backend.py).                                      *)
(*                                                                         *)
(* Byte strings are symbolic terms written in postfix form as sequences of *)
(* integers: key ids are positive, operators are negative and have a fixed *)
(* arity, so two terms are equal exactly when they were built the same     *)
(* way.  None is the empty sequence.  A positive number before REP is the  *)
(* length of a run of chain steps.                                         *)
(***************************************************************************)
EXTENDS Integers, Sequences, FiniteSets, TLC

\* ------------------------------------------------------------ bounds
Users == {1, 2}
MaxSend == 3
MaxDecrypt == 3
MaxFault == 1
MaxWs == 2
MaxTime == 1
MaxQueued == 2
MaxFrameCalls == 2
MaxRaise == 1
MaxExpiring == 1
MaxResubmit == 1
MaxGetPrekeys == 1
MaxSweepFail == 1
MaxTasks == 2
KeyPool == 3

\* ------------------------------------------------------------ term operators
PUB == -1
DHOP == -2
CAT == -3
LO == -4
HI == -5
B01 == -6
B02 == -7
K_ROOT == -8
K_STEP == -9
K_MSG == -10
K_CHAIN == -11
K_X3DH == -12
K_SIG == -13
CUT == -14
REP == -15
MAX_SKIP == 1000

None == << >>

Pub(k) == <<k, PUB>>
ValidPub(pk) == Len(pk) = 2 /\ pk[2] = PUB
ValidPriv(sk) == Len(sk) = 1

\* X25519: private_key.exchange(peer_public); commutative in the two key pairs
preform_diff_hellman_agreement(sk, pk) ==
    IF sk[1] <= pk[1] THEN <<sk[1], pk[1], DHOP>> ELSE <<pk[1], sk[1], DHOP>>

Concat(a, b) == a \o b \o <<CAT>>

perform_key_derivation_using_hkdf(input_key, info) == input_key \o <<info>>

\* AES-GCM under a message key; v = 0 as produced, 1 one byte flipped, 2 cut
\* shorter than 28 bytes
NoPlain == [content |-> 0, sender_id |-> 0]
CryptoEncrypt(key, plaintext) == [k |-> key, p |-> plaintext, v |-> 0]
CryptoDecryptOk(key, ct) == Len(key) > 0 /\ ct.v = 0 /\ ct.k = key

\* ------------------------------------------------------------ RatchetState
RatchetState ==
    [root_key |-> None, chain_key_send |-> None, chain_key_recv |-> None,
     message_number_send |-> 0, message_number_recv |-> 0,
     previous_chain_length |-> 0,
     ratchet_private_key |-> None, ratchet_public_key |-> None,
     remote_public_key |-> None, skipped_message_keys |-> {}]

\* skipped_message_keys is a dict: a set of <<public key, number, message key>>
\* with at most one entry per (public key, number)
SkippedHas(st, pk, n) == \E e \in st.skipped_message_keys : e[1] = pk /\ e[2] = n
SkippedGet(st, pk, n) ==
    (CHOOSE e \in st.skipped_message_keys : e[1] = pk /\ e[2] = n)[3]
\* the chain key n symmetric ratchet steps after chain_key.  A run of steps
\* hkdf(... + b'\x02', b'ChainKey') is written once, followed by its length:
\* x B02 CAT K_CHAIN n REP is the step applied n times to x
ChainAfter(chain_key, n) ==
    IF n = 0 THEN chain_key
    ELSE IF Len(chain_key) > 2 /\ chain_key[Len(chain_key)] = REP
    THEN SubSeq(chain_key, 1, Len(chain_key) - 2)
         \o <<chain_key[Len(chain_key) - 1] + n, REP>>
    ELSE perform_key_derivation_using_hkdf(chain_key \o <<B02, CAT>>, K_CHAIN)
         \o <<n, REP>>

_symmetric_ratchet(chain_key) ==
    [message_key |-> perform_key_derivation_using_hkdf(chain_key \o <<B01, CAT>>, K_MSG),
     next_chain_key |-> ChainAfter(chain_key, 1)]

\* k is the id of the key pair generate_key_pair() returns
_dh_ratchet_send(st, remotes_public_key, k) ==
    IF remotes_public_key = None THEN [ok |-> FALSE, st |-> st]
    ELSE
    LET s1 == [st EXCEPT !.previous_chain_length = st.message_number_send,
                         !.message_number_send = 0,
                         !.ratchet_private_key = <<k>>,
                         !.ratchet_public_key = Pub(k)]
    IN IF ~ValidPub(remotes_public_key) \/ st.root_key = None
       THEN [ok |-> FALSE, st |-> s1]
       ELSE LET dh_send == preform_diff_hellman_agreement(<<k>>, remotes_public_key)
                kdf_output == perform_key_derivation_using_hkdf(
                                  Concat(st.root_key, dh_send), K_STEP)
            IN [ok |-> TRUE,
                st |-> [s1 EXCEPT !.root_key = kdf_output \o <<LO>>,
                                  !.chain_key_send = kdf_output \o <<HI>>]]

\* mutant: the receiving DH step also drops the sending chain
_dh_ratchet_receive_DropsSend(st, remotes_public_key) ==
    IF remotes_public_key = None THEN [ok |-> FALSE, st |-> st]
    ELSE
    LET s1 == [st EXCEPT !.message_number_recv = 0,
                         !.remote_public_key = remotes_public_key]
    IN IF ~ValidPub(remotes_public_key) \/ ~ValidPriv(st.ratchet_private_key)
          \/ st.root_key = None
       THEN [ok |-> FALSE, st |-> s1]
       ELSE LET dh_recv == preform_diff_hellman_agreement(st.ratchet_private_key,
                                                          remotes_public_key)
                kdf_output == perform_key_derivation_using_hkdf(
                                  Concat(st.root_key, dh_recv), K_STEP)
            IN [ok |-> TRUE,
                st |-> [s1 EXCEPT !.root_key = kdf_output \o <<LO>>,
                                  !.chain_key_recv = kdf_output \o <<HI>>,
                                  !.chain_key_send = None]]

_dh_ratchet_receive(st, remotes_public_key) ==
    IF remotes_public_key = None THEN [ok |-> FALSE, st |-> st]
    ELSE
    LET s1 == [st EXCEPT !.message_number_recv = 0,
                         !.remote_public_key = remotes_public_key]
    IN IF ~ValidPub(remotes_public_key) \/ ~ValidPriv(st.ratchet_private_key)
          \/ st.root_key = None
       THEN [ok |-> FALSE, st |-> s1]
       ELSE LET dh_recv == preform_diff_hellman_agreement(st.ratchet_private_key,
                                                          remotes_public_key)
                kdf_output == perform_key_derivation_using_hkdf(
                                  Concat(st.root_key, dh_recv), K_STEP)
            IN [ok |-> TRUE,
                st |-> [s1 EXCEPT !.root_key = kdf_output \o <<LO>>,
                                  !.chain_key_recv = kdf_output \o <<HI>>]]

init_alice(st, shared_secret, bob_signed_prekey, k) ==
    _dh_ratchet_send(
        [st EXCEPT !.root_key = perform_key_derivation_using_hkdf(shared_secret, K_ROOT),
                   !.remote_public_key = bob_signed_prekey],
        bob_signed_prekey, k)

init_bob(st, shared_secret, bob_priv, bob_pub, alice_ratchet_public_key) ==
    LET s1 == [st EXCEPT !.root_key = perform_key_derivation_using_hkdf(shared_secret, K_ROOT),
                         !.ratchet_private_key = bob_priv,
                         !.ratchet_public_key = bob_pub]
    IN IF alice_ratchet_public_key = None
       THEN [ok |-> TRUE, st |-> s1]
       ELSE _dh_ratchet_receive(
                [s1 EXCEPT !.remote_public_key = alice_ratchet_public_key],
                alice_ratchet_public_key)

\* the loop of _skip_message_keys: the message key of each position i..until-1
\* is put into the cache and the chain key is advanced once per position
SkipLoop(chain_key, skipped, public_key, i, until) ==
    IF i >= until THEN [chain_key |-> chain_key, skipped |-> skipped]
    ELSE [chain_key |-> ChainAfter(chain_key, until - i),
          skipped |->
              {e \in skipped : ~(e[1] = public_key /\ e[2] \in i..(until - 1))}
              \cup {<<public_key, n,
                      _symmetric_ratchet(ChainAfter(chain_key, n - i)).message_key>> :
                         n \in i..(until - 1)}]

\* mutant: a jump over the limit also drops the receiving chain
_skip_message_keys_DropChain(st, public_key, start, until) ==
    IF st.chain_key_recv = None THEN [ok |-> TRUE, st |-> st]
    ELSE IF public_key = None THEN [ok |-> TRUE, st |-> st]
    ELSE IF start + MAX_SKIP < until
    THEN [ok |-> FALSE, st |-> [st EXCEPT !.chain_key_recv = None]]
    ELSE IF until <= start THEN [ok |-> TRUE, st |-> st]
    ELSE LET r == SkipLoop(st.chain_key_recv, st.skipped_message_keys,
                           public_key, start, until)
         IN [ok |-> TRUE,
             st |-> [st EXCEPT !.chain_key_recv = r.chain_key,
                               !.skipped_message_keys = r.skipped]]

\* mutant: the limit is tested after the first key of the jump was cached
_skip_message_keys_CachesFirst(st, public_key, start, until) ==
    IF st.chain_key_recv = None THEN [ok |-> TRUE, st |-> st]
    ELSE IF public_key = None THEN [ok |-> TRUE, st |-> st]
    ELSE IF until <= start THEN [ok |-> TRUE, st |-> st]
    ELSE LET r == SkipLoop(st.chain_key_recv, st.skipped_message_keys, public_key, start,
                           IF start + MAX_SKIP < until THEN start + 1 ELSE until)
         IN [ok |-> ~(start + MAX_SKIP < until),
             st |-> [st EXCEPT !.chain_key_recv = r.chain_key,
                               !.skipped_message_keys = r.skipped]]

_skip_message_keys(st, public_key, start, until) ==
    IF st.chain_key_recv = None THEN [ok |-> TRUE, st |-> st]
    ELSE IF public_key = None THEN [ok |-> TRUE, st |-> st]
    ELSE IF start + MAX_SKIP < until THEN [ok |-> FALSE, st |-> st]
    ELSE IF until <= start THEN [ok |-> TRUE, st |-> st]
    ELSE LET r == SkipLoop(st.chain_key_recv, st.skipped_message_keys,
                           public_key, start, until)
         IN [ok |-> TRUE,
             st |-> [st EXCEPT !.chain_key_recv = r.chain_key,
                               !.skipped_message_keys = r.skipped]]

\* mutant: the sending counter is not incremented
encrypt_NoIncrement(st, plaintext, k) ==
    LET r0 == IF st.chain_key_send = None
              THEN _dh_ratchet_send(st, st.remote_public_key, k)
              ELSE [ok |-> TRUE, st |-> st]
    IN IF ~r0.ok
       THEN [ok |-> FALSE, st |-> r0.st, ciphertext |-> CryptoEncrypt(None, NoPlain),
             ratchet_public_key |-> None, message_number |-> 0]
       ELSE LET r == _symmetric_ratchet(r0.st.chain_key_send)
            IN [ok |-> TRUE,
                st |-> [r0.st EXCEPT !.chain_key_send = r.next_chain_key],
                ciphertext |-> CryptoEncrypt(r.message_key, plaintext),
                ratchet_public_key |-> r0.st.ratchet_public_key,
                message_number |-> r0.st.message_number_send]

\* mutant: the sending chain key is not replaced
encrypt_KeepsChainKey(st, plaintext, k) ==
    LET r0 == IF st.chain_key_send = None
              THEN _dh_ratchet_send(st, st.remote_public_key, k)
              ELSE [ok |-> TRUE, st |-> st]
    IN IF ~r0.ok
       THEN [ok |-> FALSE, st |-> r0.st, ciphertext |-> CryptoEncrypt(None, NoPlain),
             ratchet_public_key |-> None, message_number |-> 0]
       ELSE LET r == _symmetric_ratchet(r0.st.chain_key_send)
            IN [ok |-> TRUE,
                st |-> [r0.st EXCEPT !.message_number_send = @ + 1],
                ciphertext |-> CryptoEncrypt(r.message_key, plaintext),
                ratchet_public_key |-> r0.st.ratchet_public_key,
                message_number |-> r0.st.message_number_send]

\* encrypt: <<ciphertext, ratchet_public_key, current_number>> and the new state
encrypt(st, plaintext, k) ==
    LET r0 == IF st.chain_key_send = None
              THEN _dh_ratchet_send(st, st.remote_public_key, k)
              ELSE [ok |-> TRUE, st |-> st]
    IN IF ~r0.ok
       THEN [ok |-> FALSE, st |-> r0.st, ciphertext |-> CryptoEncrypt(None, NoPlain),
             ratchet_public_key |-> None, message_number |-> 0]
       ELSE LET r == _symmetric_ratchet(r0.st.chain_key_send)
            IN [ok |-> TRUE,
                st |-> [r0.st EXCEPT !.chain_key_send = r.next_chain_key,
                                     !.message_number_send = @ + 1],
                ciphertext |-> CryptoEncrypt(r.message_key, plaintext),
                ratchet_public_key |-> r0.st.ratchet_public_key,
                message_number |-> r0.st.message_number_send]

\* mutant: message_number_recv is assigned after the AEAD call, so a failed tag
\* check advances the chain key but not the counter
DecryptTail_CounterAfterAead(s2, ciphertext, remote_public_key, message_number) ==
    LET r3 == _skip_message_keys(s2, remote_public_key, s2.message_number_recv,
                                 message_number)
    IN IF ~r3.ok THEN [ok |-> FALSE, st |-> r3.st, plaintext |-> NoPlain, err |-> "skip"]
       ELSE IF r3.st.chain_key_recv = None
       THEN [ok |-> FALSE, st |-> r3.st, plaintext |-> NoPlain, err |-> "nochain"]
       ELSE LET r == _symmetric_ratchet(r3.st.chain_key_recv)
                s4 == [r3.st EXCEPT !.chain_key_recv = r.next_chain_key]
            IN IF CryptoDecryptOk(r.message_key, ciphertext)
               THEN [ok |-> TRUE,
                     st |-> [s4 EXCEPT !.message_number_recv = message_number + 1],
                     plaintext |-> ciphertext.p, err |-> ""]
               ELSE [ok |-> FALSE, st |-> s4, plaintext |-> NoPlain, err |-> "aead"]

\* decrypt: err names the raise that ended the call ("" when it returned)
DecryptTail(s2, ciphertext, remote_public_key, message_number) ==
    LET r3 == _skip_message_keys(s2, remote_public_key, s2.message_number_recv,
                                 message_number)
    IN IF ~r3.ok THEN [ok |-> FALSE, st |-> r3.st, plaintext |-> NoPlain, err |-> "skip"]
       ELSE IF r3.st.chain_key_recv = None
       THEN [ok |-> FALSE, st |-> r3.st, plaintext |-> NoPlain, err |-> "nochain"]
       ELSE LET r == _symmetric_ratchet(r3.st.chain_key_recv)
                s4 == [r3.st EXCEPT !.chain_key_recv = r.next_chain_key,
                                    !.message_number_recv = message_number + 1]
            IN IF CryptoDecryptOk(r.message_key, ciphertext)
               THEN [ok |-> TRUE, st |-> s4, plaintext |-> ciphertext.p, err |-> ""]
               ELSE [ok |-> FALSE, st |-> s4, plaintext |-> NoPlain, err |-> "aead"]

\* mutant: a skipped message key stays in the cache after it was used
decrypt_KeepsSkippedKey(st, ciphertext, remote_public_key, message_number) ==
    IF remote_public_key = None
    THEN [ok |-> FALSE, st |-> st, plaintext |-> NoPlain, err |-> "type"]
    ELSE IF SkippedHas(st, remote_public_key, message_number)
    THEN LET message_key == SkippedGet(st, remote_public_key, message_number)
         IN IF CryptoDecryptOk(message_key, ciphertext)
            THEN [ok |-> TRUE, st |-> st, plaintext |-> ciphertext.p, err |-> ""]
            ELSE [ok |-> FALSE, st |-> st, plaintext |-> NoPlain, err |-> "aead"]
    ELSE IF st.remote_public_key # remote_public_key
    THEN LET r1 == IF st.chain_key_recv # None /\ st.remote_public_key # None
                   THEN _skip_message_keys(st, st.remote_public_key,
                                           st.message_number_recv,
                                           st.previous_chain_length)
                   ELSE [ok |-> TRUE, st |-> st]
         IN IF ~r1.ok
            THEN [ok |-> FALSE, st |-> r1.st, plaintext |-> NoPlain, err |-> "skip"]
            ELSE LET r2 == _dh_ratchet_receive(r1.st, remote_public_key)
                 IN IF ~r2.ok
                    THEN [ok |-> FALSE, st |-> r2.st, plaintext |-> NoPlain, err |-> "dh"]
                    ELSE DecryptTail(r2.st, ciphertext, remote_public_key, message_number)
    ELSE DecryptTail(st, ciphertext, remote_public_key, message_number)

decrypt(st, ciphertext, remote_public_key, message_number) ==
    IF remote_public_key = None
    THEN [ok |-> FALSE, st |-> st, plaintext |-> NoPlain, err |-> "type"]
    ELSE IF SkippedHas(st, remote_public_key, message_number)
    THEN LET message_key == SkippedGet(st, remote_public_key, message_number)
             s1 == [st EXCEPT !.skipped_message_keys =
                        {e \in @ : ~(e[1] = remote_public_key /\ e[2] = message_number)}]
         IN IF CryptoDecryptOk(message_key, ciphertext)
            THEN [ok |-> TRUE, st |-> s1, plaintext |-> ciphertext.p, err |-> ""]
            ELSE [ok |-> FALSE, st |-> s1, plaintext |-> NoPlain, err |-> "aead"]
    ELSE IF st.remote_public_key # remote_public_key
    THEN LET r1 == IF st.chain_key_recv # None /\ st.remote_public_key # None
                   THEN _skip_message_keys(st, st.remote_public_key,
                                           st.message_number_recv,
                                           st.previous_chain_length)
                   ELSE [ok |-> TRUE, st |-> st]
         IN IF ~r1.ok
            THEN [ok |-> FALSE, st |-> r1.st, plaintext |-> NoPlain, err |-> "skip"]
            ELSE LET r2 == _dh_ratchet_receive(r1.st, remote_public_key)
                 IN IF ~r2.ok
                    THEN [ok |-> FALSE, st |-> r2.st, plaintext |-> NoPlain, err |-> "dh"]
                    ELSE DecryptTail(r2.st, ciphertext, remote_public_key, message_number)
    ELSE DecryptTail(st, ciphertext, remote_public_key, message_number)

\* ------------------------------------------------------------ X3DH
\* bundle: [identity_key, signed_prekey, one_time_prekey] public halves
calculate_agreement_alice(alice_identity_key, alice_ephemeral_key, bob_bundle) ==
    LET dh1 == preform_diff_hellman_agreement(alice_identity_key, bob_bundle.signed_prekey)
        dh2 == preform_diff_hellman_agreement(alice_ephemeral_key, bob_bundle.identity_key)
        dh3 == preform_diff_hellman_agreement(alice_ephemeral_key, bob_bundle.signed_prekey)
        c3 == Concat(Concat(dh1, dh2), dh3)
        cc == IF bob_bundle.one_time_prekey # None
              THEN Concat(c3, preform_diff_hellman_agreement(alice_ephemeral_key,
                                                            bob_bundle.one_time_prekey))
              ELSE c3
    IN perform_key_derivation_using_hkdf(cc, K_X3DH)

\* mutant: DH1 taken with Bob's identity key instead of his signed prekey
calculate_agreement_bob_Dh1Identity(bob_identity_key, bob_signed_prekey, bob_one_time_prekey, alice_identity_key, alice_ephemeral_key) ==
    LET dh1 == preform_diff_hellman_agreement(bob_identity_key, alice_identity_key)
        dh2 == preform_diff_hellman_agreement(bob_identity_key, alice_ephemeral_key)
        dh3 == preform_diff_hellman_agreement(bob_signed_prekey, alice_ephemeral_key)
        c3 == Concat(Concat(dh1, dh2), dh3)
        cc == IF bob_one_time_prekey # None
              THEN Concat(c3, preform_diff_hellman_agreement(bob_one_time_prekey,
                                                            alice_ephemeral_key))
              ELSE c3
    IN perform_key_derivation_using_hkdf(cc, K_X3DH)

calculate_agreement_bob(bob_identity_key, bob_signed_prekey, bob_one_time_prekey, alice_identity_key, alice_ephemeral_key) ==
    LET dh1 == preform_diff_hellman_agreement(bob_signed_prekey, alice_identity_key)
        dh2 == preform_diff_hellman_agreement(bob_identity_key, alice_ephemeral_key)
        dh3 == preform_diff_hellman_agreement(bob_signed_prekey, alice_ephemeral_key)
        c3 == Concat(Concat(dh1, dh2), dh3)
        cc == IF bob_one_time_prekey # None
              THEN Concat(c3, preform_diff_hellman_agreement(bob_one_time_prekey,
                                                            alice_ephemeral_key))
              ELSE c3
    IN perform_key_derivation_using_hkdf(cc, K_X3DH)

\* ------------------------------------------------------------ encodings
\* base64: a wrapper that b64decode removes
b64encode(x) == [b64 |-> x]
b64decode(s) == s.b64

\* ------------------------------------------------------------ state
Ws == 1..MaxWs

VARIABLES
    users,                 \* MessageHandler.users: user_id -> User
    keygen,                \* per user, how many key pairs generate_key_pair() has drawn
    redis_prekey_bundle,   \* prekey_bundle:{user}
    redis_x3dh_ephemeral,  \* x3dh_ephemeral:{sender}:{recipient}
    redis_presence,        \* users whose presence:{user} key exists
    redis_offline,         \* offline_messages:{user}: set of [id, score]
    redis_meta,            \* ids with a message_meta:{id} key
    active_connections,    \* ConnectionManager.active_connections (connection ids)
    user_connections,      \* ConnectionManager.user_connections: user -> connection id
    ws_user, ws_pc, ws_open, ws_out, ws_drain,   \* one websocket task per transport
    now,                   \* time.time()
    sent,                  \* log: every envelope handle_text_message returned
    calls,                 \* log: per user, every decrypt_message call and its outcome
    x3dh,                  \* inputs and outputs of the X3DH agreement functions
    raised,                \* log: every handle_text_message call that raised
    redis_self_destruct,   \* self_destruct_messages: set of [id, score]
    sweep,                 \* the _handle_self_destruct task: position and locals
    ws_req,                \* per task, the reply _process_websocket_message has yet to send
    ws_prev,               \* log: per transport, the connection id its user was bound to at connect
    tasks                  \* calls of handle_text_message and decrypt_message suspended at an await

coreVars == <<users, keygen, redis_prekey_bundle, redis_x3dh_ephemeral>>
connVars == <<redis_presence, active_connections, user_connections,
              ws_user, ws_pc, ws_open, ws_out, ws_drain>>
vars == <<users, keygen, redis_prekey_bundle, redis_x3dh_ephemeral, redis_presence,
          redis_offline, redis_meta, active_connections, user_connections,
          ws_user, ws_pc, ws_open, ws_out, ws_drain, now, sent, calls, x3dh,
          raised, redis_self_destruct, sweep, ws_req, ws_prev, tasks>>

KeyId(u, i) == u * 100 + i
PREKEY_BATCH_SIZE == 1

NoX3dh == [ida |-> 0, epha |-> 0, idb |-> 0, spkb |-> 0, otpk |-> 0,
           alice_otpk |-> FALSE, bob_otpk |-> FALSE,
           done |-> FALSE, alice |-> None, bob |-> None]

\* a call that has not begun.  pc is the await the call is suspended at (done:
\* it has returned or raised, its locals are gone); keys
\* is the id of the first key pair the call generated; eph is what it read
\* from or will write to x3dh_ephemeral; installed says whether the call has
\* assigned user.sessions[peer]
Tasks == 1..MaxTasks

NoTask == [pc |-> "idle", user |-> 0, peer |-> 0, arg |-> 0, keys |-> 0,
           eph |-> None, installed |-> FALSE]

\* no reply pending
NoRequest == [type |-> "none", id |-> 0]

\* the sweeper before its first iteration
NoSweep == [pc |-> "idle", current_time |-> 0, expired |-> << >>, log |-> << >>,
            fails |-> 0]

Init ==
    /\ users = << >>
    /\ keygen = [u \in Users |-> 0]
    /\ redis_prekey_bundle = << >>
    /\ redis_x3dh_ephemeral = << >>
    /\ redis_presence = {}
    /\ redis_offline = [u \in Users |-> {}]
    /\ redis_meta = {}
    /\ active_connections = {}
    /\ user_connections = << >>
    /\ ws_user = [w \in Ws |-> 0]
    /\ ws_pc = [w \in Ws |-> "new"]
    /\ ws_open = [w \in Ws |-> TRUE]
    /\ ws_out = [w \in Ws |-> << >>]
    /\ ws_drain = [w \in Ws |-> << >>]
    /\ now = 0
    /\ sent = << >>
    /\ calls = [u \in Users |-> << >>]
    /\ x3dh = NoX3dh
    /\ raised = << >>
    /\ redis_self_destruct = {}
    /\ sweep = NoSweep
    /\ ws_req = [w \in Ws |-> NoRequest]
    /\ ws_prev = [w \in Ws |-> 0]
    /\ tasks = [t \in Tasks |-> NoTask]

\* ------------------------------------------------------------ users.py, register_user
generate_prekey_bundle(u) ==
    [identity_key |-> b64encode(Pub(KeyId(u, 0))),
     signed_prekey |->
        [public |-> b64encode(Pub(KeyId(u, 1))),
         private |-> b64encode(<<KeyId(u, 1)>>),
         signature |-> b64encode(perform_key_derivation_using_hkdf(
                           Concat(<<KeyId(u, 0)>>, Pub(KeyId(u, 1))), K_SIG))],
     one_time_prekeys |->
        [i \in 1..PREKEY_BATCH_SIZE |->
            [public |-> b64encode(Pub(KeyId(u, 1 + i))),
             private |-> b64encode(<<KeyId(u, 1 + i)>>)]]]

User(u) ==
    [identity_key_pair |-> <<KeyId(u, 0)>>,
     prekey_bundle |-> generate_prekey_bundle(u),
     signed_prekey_private |-> b64decode(generate_prekey_bundle(u).signed_prekey.private),
     sessions |-> << >>]

Put(f, k, v) == [x \in (DOMAIN f) \cup {k} |-> IF x = k THEN v ELSE f[x]]

register_user(u) ==
    /\ u \notin DOMAIN users
    /\ users' = Put(users, u, User(u))
    /\ keygen' = [keygen EXCEPT ![u] = 2 + PREKEY_BATCH_SIZE]
    /\ redis_prekey_bundle' = Put(redis_prekey_bundle, u, User(u).prekey_bundle)
    /\ UNCHANGED <<redis_x3dh_ephemeral, redis_offline, redis_meta, connVars,
                   now, sent, calls, x3dh,
                   raised, redis_self_destruct, sweep,
                   ws_req, ws_prev, tasks>>

\* ------------------------------------------------------------ connection_manager.py
\* c: [ac, uc, presence, out], the registry state an operation reads and writes
ConnState == [ac |-> active_connections, uc |-> user_connections,
              presence |-> redis_presence, out |-> ws_out]

disconnect(c, user_id) ==
    IF user_id \in DOMAIN c.uc
    THEN [c EXCEPT !.ac = @ \ {c.uc[user_id]},
                   !.uc = [x \in (DOMAIN c.uc) \ {user_id} |-> c.uc[x]],
                   !.presence = @ \ {user_id}]
    ELSE c

\* mutant: a failed write leaves the binding in place
send_to_user_KeepsBinding(c, user_id, frame) ==
    IF user_id \in DOMAIN c.uc /\ c.uc[user_id] \in c.ac
    THEN IF ws_open[c.uc[user_id]]
         THEN [ok |-> TRUE,
               c |-> [c EXCEPT !.out[c.uc[user_id]] = Append(@, frame)]]
         ELSE [ok |-> FALSE, c |-> c]
    ELSE [ok |-> FALSE, c |-> c]

send_to_user(c, user_id, frame) ==
    IF user_id \in DOMAIN c.uc /\ c.uc[user_id] \in c.ac
    THEN IF ws_open[c.uc[user_id]]
         THEN [ok |-> TRUE,
               c |-> [c EXCEPT !.out[c.uc[user_id]] = Append(@, frame)]]
         ELSE [ok |-> FALSE, c |-> disconnect(c, user_id)]
    ELSE [ok |-> FALSE, c |-> c]

\* user_id is bound to a connection whose transport accepts writes
Writable(c, user_id) ==
    /\ user_id \in DOMAIN c.uc
    /\ c.uc[user_id] \in c.ac
    /\ ws_open[c.uc[user_id]]

is_user_online(c, user_id) == user_id \in c.presence

Frame(type, id, flag) == [type |-> type, id |-> id, is_first_message |-> flag]

\* ------------------------------------------------------------ message_handler.py
PublicPreKey(bundle_dict) ==
    [identity_key |-> b64decode(bundle_dict.identity_key),
     signed_prekey |-> b64decode(bundle_dict.signed_prekey.public),
     one_time_prekey |-> None]

\* mutant: the session is put into sender.sessions before the directory read
_establish_sender_session_InstallFirst(sender_id, recipient_id, k) ==
    IF recipient_id \notin DOMAIN redis_prekey_bundle
    THEN [ok |-> FALSE,
          sessions |-> Put(users[sender_id].sessions, recipient_id, RatchetState),
          x3dh_ephemeral |-> redis_x3dh_ephemeral]
    ELSE LET recipient_bundle == PublicPreKey(redis_prekey_bundle[recipient_id])
             shared_secret == calculate_agreement_alice(
                                  users[sender_id].identity_key_pair, <<k>>, recipient_bundle)
             r == init_alice(RatchetState, shared_secret, recipient_bundle.signed_prekey, k + 1)
         IN [ok |-> TRUE,
             sessions |-> Put(users[sender_id].sessions, recipient_id, r.st),
             x3dh_ephemeral |-> Put(redis_x3dh_ephemeral, <<sender_id, recipient_id>>,
                                    b64encode(Pub(k)))]

\* _establish_sender_session from two fresh key pairs k (X3DH ephemeral) and
\* k + 1 (first ratchet key): [ok, sessions, x3dh_ephemeral], sender.sessions and
\* the x3dh_ephemeral keys when it returns (ok) or raises (~ok)
_establish_sender_session(sender_id, recipient_id, k) ==
    IF recipient_id \notin DOMAIN redis_prekey_bundle
    THEN [ok |-> FALSE, sessions |-> users[sender_id].sessions,
          x3dh_ephemeral |-> redis_x3dh_ephemeral]
    ELSE LET recipient_bundle == PublicPreKey(redis_prekey_bundle[recipient_id])
             shared_secret == calculate_agreement_alice(
                                  users[sender_id].identity_key_pair, <<k>>, recipient_bundle)
             r == init_alice(RatchetState, shared_secret, recipient_bundle.signed_prekey, k + 1)
         IN [ok |-> TRUE,
             sessions |-> Put(users[sender_id].sessions, recipient_id, r.st),
             x3dh_ephemeral |-> Put(redis_x3dh_ephemeral, <<sender_id, recipient_id>>,
                                    b64encode(Pub(k)))]

EncryptedMessage(id, sender_id, recipient_id, r, pcl, t, sd) ==
    [id |-> id, sender_id |-> sender_id, recipient_id |-> recipient_id,
     encrypted_content |-> r.ciphertext,
     ephemeral_public_key |-> r.ratchet_public_key,
     previous_chain_length |-> pcl,
     message_number |-> r.message_number,
     timestamp |-> t, self_destruct_time |-> sd]

\* mutant: the envelope is stored offline whether or not it was delivered
Delivery_AlwaysStore(message, original_content, is_first_message) ==
    LET c == ConnState
        r == IF is_user_online(c, message.recipient_id)
             THEN send_to_user(c, message.recipient_id,
                      Frame("encrypted_message", message.id,
                            IF is_first_message THEN "true" ELSE "false"))
             ELSE [ok |-> FALSE, c |-> c]
    IN /\ active_connections' = r.c.ac
       /\ user_connections' = r.c.uc
       /\ redis_presence' = r.c.presence
       /\ ws_out' = r.c.out
       /\ redis_meta' = IF r.ok THEN redis_meta \cup {message.id} ELSE redis_meta
       /\ redis_offline' =
            [redis_offline EXCEPT ![message.recipient_id] =
                {m \in @ : m.id # message.id}
                \cup {[id |-> message.id, score |-> message.timestamp]}]
       /\ sent' = Append(sent, [message |-> message, is_first_message |-> is_first_message,
                                content |-> original_content,
                                online |-> r.ok,
                                bundle_present |->
                                    message.recipient_id \in DOMAIN redis_prekey_bundle])

\* _deliver_encrypted_message, then _store_offline_encrypted_message when it
\* returned False
Delivery(message, original_content, is_first_message) ==
    LET c == ConnState
        r == IF is_user_online(c, message.recipient_id)
             THEN send_to_user(c, message.recipient_id,
                      Frame("encrypted_message", message.id,
                            IF is_first_message THEN "true" ELSE "false"))
             ELSE [ok |-> FALSE, c |-> c]
    IN /\ active_connections' = r.c.ac
       /\ user_connections' = r.c.uc
       /\ redis_presence' = r.c.presence
       /\ ws_out' = r.c.out
       /\ redis_meta' = IF r.ok THEN redis_meta \cup {message.id} ELSE redis_meta
       /\ redis_offline' =
            IF r.ok THEN redis_offline
            ELSE [redis_offline EXCEPT ![message.recipient_id] =
                     {m \in @ : m.id # message.id}
                     \cup {[id |-> message.id, score |-> message.timestamp]}]
       /\ sent' = Append(sent, [message |-> message, is_first_message |-> is_first_message,
                                content |-> original_content,
                                online |-> r.ok,
                                bundle_present |->
                                    message.recipient_id \in DOMAIN redis_prekey_bundle])

\* what a handle_text_message call can be seen to have changed
SendView(sender_id) ==
    [sessions |-> users[sender_id].sessions, x3dh_ephemeral |-> redis_x3dh_ephemeral,
     nsent |-> Len(sent), offline |-> redis_offline, out |-> ws_out,
     meta |-> redis_meta, self_destruct |-> redis_self_destruct]

\* _schedule_self_destruct, when self_destruct_seconds is truthy
_schedule_self_destruct(message_id, seconds) ==
    IF seconds # 0
    THEN {m \in redis_self_destruct : m.id # message_id}
         \cup {[id |-> message_id, score |-> now + seconds]}
    ELSE redis_self_destruct

\* handle_text_message without the frame of what it leaves alone: the part the
\* websocket task shares with a direct call
handle_text_message_body(sender_id, recipient_id, content, self_destruct_seconds) ==
    /\ sender_id \in DOMAIN users
    /\ recipient_id \in DOMAIN users
    /\ LET sender == users[sender_id]
           is_first_message == recipient_id \notin DOMAIN sender.sessions
           k == KeyId(sender_id, keygen[sender_id])
           est == IF is_first_message
                  THEN _establish_sender_session(sender_id, recipient_id, k)
                  ELSE [ok |-> TRUE, sessions |-> sender.sessions,
                        x3dh_ephemeral |-> redis_x3dh_ephemeral]
       IN IF ~est.ok
          THEN /\ Len(raised) < MaxRaise
               /\ users' = [users EXCEPT ![sender_id].sessions = est.sessions]
               /\ redis_x3dh_ephemeral' = est.x3dh_ephemeral
               /\ raised' = Append(raised,
                      [sender_id |-> sender_id, recipient_id |-> recipient_id,
                       err |-> "bundle", before |-> SendView(sender_id),
                       after |-> [SendView(sender_id) EXCEPT
                                     !.sessions = est.sessions,
                                     !.x3dh_ephemeral = est.x3dh_ephemeral]])
               /\ UNCHANGED <<keygen, redis_offline, redis_meta, redis_presence,
                              active_connections, user_connections, ws_out, sent,
                              redis_self_destruct>>
          ELSE LET st0 == est.sessions[recipient_id]
                   kn == IF is_first_message THEN k + 2 ELSE k
                   plaintext == [content |-> content, sender_id |-> sender_id]
                   r == encrypt(st0, plaintext, kn)
                   used == (IF is_first_message THEN 2 ELSE 0)
                           + (IF st0.chain_key_send = None /\ st0.remote_public_key # None
                              THEN 1 ELSE 0)
                   message == EncryptedMessage(Len(sent) + 1, sender_id, recipient_id, r,
                                               r.st.previous_chain_length, now,
                                               self_destruct_seconds)
               IN /\ users' = [users EXCEPT ![sender_id].sessions =
                                   Put(est.sessions, recipient_id, r.st)]
                  /\ keygen' = [keygen EXCEPT ![sender_id] = @ + used]
                  /\ redis_x3dh_ephemeral' = est.x3dh_ephemeral
                  /\ IF r.ok
                     THEN /\ Len(sent) < MaxSend
                          /\ Delivery(message, content, is_first_message)
                          /\ redis_self_destruct' =
                                _schedule_self_destruct(message.id, self_destruct_seconds)
                          /\ UNCHANGED raised
                     ELSE /\ Len(raised) < MaxRaise
                          /\ raised' = Append(raised,
                                [sender_id |-> sender_id, recipient_id |-> recipient_id,
                                 err |-> "encrypt", before |-> SendView(sender_id),
                                 after |-> [SendView(sender_id) EXCEPT
                                     !.sessions = Put(est.sessions, recipient_id, r.st),
                                     !.x3dh_ephemeral = est.x3dh_ephemeral]])
                          /\ UNCHANGED <<redis_offline, redis_meta, redis_presence,
                                         active_connections, user_connections, ws_out,
                                         sent, redis_self_destruct>>
    /\ UNCHANGED <<redis_prekey_bundle, ws_user, ws_open, ws_drain,
                   now, calls, x3dh, sweep, ws_prev, tasks>>

handle_text_message(sender_id, recipient_id, content, self_destruct_seconds) ==
    /\ handle_text_message_body(sender_id, recipient_id, content, self_destruct_seconds)
    /\ UNCHANGED <<ws_pc, ws_req>>

\* [ok, st]: the ratchet _establish_receiver_session would install
_establish_receiver_session(receiver_id, sender_id, alice_ratchet_public_key) ==
    IF \/ sender_id \notin DOMAIN users
       \/ <<sender_id, receiver_id>> \notin DOMAIN redis_x3dh_ephemeral
       \/ sender_id \notin DOMAIN redis_prekey_bundle
    THEN [ok |-> FALSE, st |-> RatchetState]
    ELSE LET receiver == users[receiver_id]
             alice_x3dh_ephemeral_key ==
                 b64decode(redis_x3dh_ephemeral[<<sender_id, receiver_id>>])
             shared_secret == calculate_agreement_bob(
                 receiver.identity_key_pair, receiver.signed_prekey_private, None,
                 b64decode(redis_prekey_bundle[sender_id].identity_key),
                 alice_x3dh_ephemeral_key)
             signed_prekey_public == b64decode(receiver.prekey_bundle.signed_prekey.public)
         IN init_bob(RatchetState, shared_secret, receiver.signed_prekey_private,
                     signed_prekey_public, alice_ratchet_public_key)

\* mutant: a missing session is established whatever is_first_message says
DecryptMessage_AlwaysEstablish(user_id, sender_id, encrypted_content, ephemeral_public_key, message_number, is_first_message) ==
    LET recipient == users[user_id]
        has == sender_id \in DOMAIN recipient.sessions
        est == IF has THEN [ok |-> TRUE, st |-> recipient.sessions[sender_id]]
               ELSE _establish_receiver_session(user_id, sender_id, ephemeral_public_key)
    IN IF ~est.ok
       THEN [ok |-> FALSE, sessions |-> recipient.sessions, content |-> 0,
             err |-> "establish", entered |-> << >>]
       ELSE LET d == decrypt(est.st, encrypted_content, ephemeral_public_key,
                             message_number)
            IN [ok |-> d.ok, sessions |-> Put(recipient.sessions, sender_id, d.st),
                content |-> d.plaintext.content, err |-> d.err,
                entered |-> <<est.st>>]

\* MessageHandler.decrypt_message: [ok, sessions, content, err]; entered holds the
\* ratchet state ratchet.decrypt was called on, when it was called
DecryptMessage(user_id, sender_id, encrypted_content, ephemeral_public_key, message_number, is_first_message) ==
    LET recipient == users[user_id]
        has == sender_id \in DOMAIN recipient.sessions
        est == IF has THEN [ok |-> TRUE, st |-> recipient.sessions[sender_id]]
               ELSE IF is_first_message
               THEN _establish_receiver_session(user_id, sender_id, ephemeral_public_key)
               ELSE [ok |-> FALSE, st |-> RatchetState]
    IN IF ~est.ok
       THEN [ok |-> FALSE, sessions |-> recipient.sessions, content |-> 0,
             err |-> IF is_first_message THEN "establish" ELSE "nosession",
             entered |-> << >>]
       ELSE LET d == decrypt(est.st, encrypted_content, ephemeral_public_key,
                             message_number)
            IN [ok |-> d.ok, sessions |-> Put(recipient.sessions, sender_id, d.st),
                content |-> d.plaintext.content, err |-> d.err,
                entered |-> <<est.st>>]

\* ------------------------------------------------------------ decrypt requests
Muts == {"none", "tamper", "far", "noflag"}

\* malformed input: no ratchet public key, one that is not 32 bytes long, a
\* ciphertext shorter than 28 bytes
Malformed == {"nokey", "badkey", "short"}

TotalCalls == Len(calls[1]) + Len(calls[2])

TotalFaults ==
    Cardinality({<<u, j>> \in Users \X (1..MaxDecrypt) :
                    j <= Len(calls[u]) /\ calls[u][j].mut # "none"})

SessionOf(u, p) ==
    IF u \in DOMAIN users /\ p \in DOMAIN users[u].sessions
    THEN <<users[u].sessions[p]>> ELSE << >>

\* the decrypt_message request a client builds from envelope i, changed as mut says
Request(u, i, mut) ==
    LET e == sent[i].message
        s == SessionOf(u, e.sender_id)
    IN [sender_id |-> e.sender_id,
        encrypted_content |-> IF mut = "tamper" THEN [e.encrypted_content EXCEPT !.v = 1]
                              ELSE IF mut = "short" THEN [e.encrypted_content EXCEPT !.v = 2]
                              ELSE e.encrypted_content,
        ephemeral_public_key |-> IF mut = "nokey" THEN None
                                 ELSE IF mut = "badkey" THEN e.ephemeral_public_key \o <<CUT>>
                                 ELSE e.ephemeral_public_key,
        message_number |-> IF mut = "far"
                           THEN MAX_SKIP + 1 + e.message_number
                                + (IF s = << >> THEN 0 ELSE s[1].message_number_recv)
                           ELSE IF mut = "edge"
                           THEN MAX_SKIP
                                + (IF s = << >> THEN 0 ELSE s[1].message_number_recv)
                           ELSE e.message_number,
        is_first_message |-> IF mut = "noflag" THEN FALSE ELSE sent[i].is_first_message]

decrypt_message(u, i, mut) ==
    /\ TotalCalls < MaxDecrypt
    /\ i \in 1..Len(sent)
    /\ sent[i].message.recipient_id = u
    /\ mut = "noflag" => sent[i].is_first_message
    /\ mut # "none" => TotalFaults < MaxFault
    /\ LET q == Request(u, i, mut)
           r == DecryptMessage(u, q.sender_id, q.encrypted_content,
                               q.ephemeral_public_key, q.message_number,
                               q.is_first_message)
       IN /\ users' = [users EXCEPT ![u].sessions = r.sessions]
          /\ calls' = [calls EXCEPT ![u] = Append(@,
                [env |-> i, mut |-> mut, req |-> q, ok |-> r.ok, content |-> r.content,
                 err |-> r.err, nsent |-> Len(sent),
                 peers_before |-> DOMAIN users[u].sessions,
                 peers_after |-> DOMAIN r.sessions,
                 before |-> SessionOf(u, q.sender_id),
                 pre |-> r.entered,
                 post |-> IF q.sender_id \in DOMAIN r.sessions
                          THEN <<r.sessions[q.sender_id]>> ELSE << >>,
                 via |-> << >>])]
    /\ UNCHANGED <<keygen, redis_prekey_bundle, redis_x3dh_ephemeral, redis_offline,
                   redis_meta, connVars, now, sent, x3dh,
                   raised, redis_self_destruct, sweep,
                   ws_req, ws_prev, tasks>>

\* the client sends the decrypt_message request of its earlier call j, built
\* from an envelope as it was sent, once more
Resubmitted == Cardinality({<<u, j>> \in Users \X (1..(MaxDecrypt + MaxResubmit)) :
                               j <= Len(calls[u]) /\ calls[u][j].via # << >>})

decrypt_message_again(u, j) ==
    /\ Resubmitted < MaxResubmit
    /\ j \in 1..Len(calls[u])
    /\ calls[u][j].mut = "none"
    /\ LET q == calls[u][j].req
           r == DecryptMessage(u, q.sender_id, q.encrypted_content,
                               q.ephemeral_public_key, q.message_number,
                               q.is_first_message)
       IN /\ users' = [users EXCEPT ![u].sessions = r.sessions]
          /\ calls' = [calls EXCEPT ![u] = Append(@,
                [env |-> calls[u][j].env, mut |-> calls[u][j].mut, req |-> q,
                 ok |-> r.ok, content |-> r.content,
                 err |-> r.err, nsent |-> Len(sent),
                 peers_before |-> DOMAIN users[u].sessions,
                 peers_after |-> DOMAIN r.sessions,
                 before |-> SessionOf(u, q.sender_id),
                 pre |-> r.entered,
                 post |-> IF q.sender_id \in DOMAIN r.sessions
                          THEN <<r.sessions[q.sender_id]>> ELSE << >>,
                 via |-> <<j>>])]
    /\ UNCHANGED <<keygen, redis_prekey_bundle, redis_x3dh_ephemeral, redis_offline,
                   redis_meta, connVars, now, sent, x3dh,
                   raised, redis_self_destruct, sweep,
                   ws_req, ws_prev, tasks>>

\* ------------------------------------------------------------ message_backend.py
\* send_to_user of one frame to each user of targets, lowest user id first
RECURSIVE SendToEach(_, _, _)
SendToEach(c, targets, frame) ==
    IF targets = {} THEN c
    ELSE LET t == CHOOSE t \in targets : \A o \in targets : t <= o
         IN SendToEach(send_to_user(c, t, frame).c, targets \ {t}, frame)

\* _send_current_online_users: one presence frame to user_id per other bound user
RECURSIVE SendOnlineUsers(_, _, _)
SendOnlineUsers(c, user_id, others) ==
    IF others = {} THEN c
    ELSE LET o == CHOOSE o \in others : \A o2 \in others : o <= o2
         IN SendOnlineUsers(send_to_user(c, user_id, Frame("presence", o, "absent")).c,
                            user_id, others \ {o})

SetConn(c) ==
    /\ active_connections' = c.ac
    /\ user_connections' = c.uc
    /\ redis_presence' = c.presence
    /\ ws_out' = c.out

\* handle_websocket up to the call of deliver_offline_messages: the first frame
\* is auth for user u; connect, auth_success, the presence broadcasts.
\* Transports are accepted in the order of their numbers.
WsAuth(w, u) ==
    /\ ws_pc[w] = "new"
    /\ \A w0 \in Ws : w0 < w => ws_pc[w0] # "new"
    /\ ws_open[w]
    /\ LET c0 == [ac |-> active_connections \cup {w},
                  uc |-> Put(user_connections, u, w),
                  presence |-> redis_presence \cup {u},
                  out |-> [ws_out EXCEPT ![w] = Append(@, Frame("auth_success", u, "absent"))]]
           c1 == SendToEach(c0, (DOMAIN c0.uc) \ {u}, Frame("presence", u, "absent"))
           c2 == SendOnlineUsers(c1, u, (DOMAIN c1.uc) \ {u})
       IN SetConn(c2)
    /\ ws_user' = [ws_user EXCEPT ![w] = u]
    /\ ws_prev' = [ws_prev EXCEPT ![w] = IF u \in DOMAIN user_connections
                                          THEN user_connections[u] ELSE 0]
    /\ ws_pc' = [ws_pc EXCEPT ![w] = "drain_read"]
    /\ UNCHANGED <<coreVars, redis_offline, redis_meta, ws_open, ws_drain,
                   now, sent, calls, x3dh,
                   raised, redis_self_destruct, sweep,
                   ws_req, tasks>>

\* zrange(offline_messages:{user}, 0, -1): ascending score; members of equal
\* score come in the order of their JSON strings, which start with the random id
IsZrange(q, order) ==
    /\ Len(order) = Cardinality(q)
    /\ {order[k] : k \in 1..Len(order)} = q
    /\ \A k \in 1..(Len(order) - 1) : order[k].score <= order[k + 1].score

\* deliver_offline_messages, first await: read the queue
DrainRead(w) ==
    /\ ws_pc[w] = "drain_read"
    /\ \E order \in [1..Cardinality(redis_offline[ws_user[w]]) -> redis_offline[ws_user[w]]] :
          /\ IsZrange(redis_offline[ws_user[w]], order)
          /\ ws_drain' = [ws_drain EXCEPT ![w] = order]
          /\ ws_pc' = [ws_pc EXCEPT ![w] = IF order = << >> THEN "loop" ELSE "drain_send"]
    /\ UNCHANGED <<coreVars, redis_presence, redis_offline, redis_meta,
                   active_connections, user_connections, ws_user, ws_open, ws_out,
                   now, sent, calls, x3dh,
                   raised, redis_self_destruct, sweep,
                   ws_req, ws_prev, tasks>>

\* deliver_offline_messages, one turn of the loop: send_to_user of the next
\* queued message, whatever it returns
DrainSend(w) ==
    /\ ws_pc[w] = "drain_send"
    /\ ws_drain[w] # << >>
    /\ SetConn(send_to_user(ConnState, ws_user[w],
                   Frame("encrypted_message", Head(ws_drain[w]).id, "absent")).c)
    /\ ws_drain' = [ws_drain EXCEPT ![w] = Tail(@)]
    /\ UNCHANGED <<coreVars, redis_offline, redis_meta, ws_user, ws_pc, ws_open,
                   now, sent, calls, x3dh,
                   raised, redis_self_destruct, sweep,
                   ws_req, ws_prev, tasks>>

\* deliver_offline_messages, after the loop: delete the queue key
DrainDelete(w) ==
    /\ ws_pc[w] = "drain_send"
    /\ ws_drain[w] = << >>
    /\ redis_offline' = [redis_offline EXCEPT ![ws_user[w]] = {}]
    /\ ws_pc' = [ws_pc EXCEPT ![w] = "loop"]
    /\ UNCHANGED <<coreVars, redis_presence, redis_meta, active_connections,
                   user_connections, ws_user, ws_open, ws_out, ws_drain,
                   now, sent, calls, x3dh,
                   raised, redis_self_destruct, sweep,
                   ws_req, ws_prev, tasks>>

\* the transport stops accepting writes (the peer is gone); the task has not
\* noticed yet
WsBreak(w) ==
    /\ ws_pc[w] \in {"drain_read", "drain_send", "loop"}
    /\ ws_open[w]
    /\ ws_open' = [ws_open EXCEPT ![w] = FALSE]
    /\ UNCHANGED <<coreVars, redis_presence, redis_offline, redis_meta,
                   active_connections, user_connections, ws_user, ws_pc, ws_out,
                   ws_drain, now, sent, calls, x3dh,
                   raised, redis_self_destruct, sweep,
                   ws_req, ws_prev, tasks>>

\* receive_text raises WebSocketDisconnect; finally: disconnect(user_id) and
\* the offline presence broadcast
WsClose(w) ==
    /\ ws_pc[w] = "loop"
    /\ ~ws_open[w]
    /\ LET c1 == disconnect(ConnState, ws_user[w])
       IN SetConn(SendToEach(c1, (DOMAIN c1.uc) \ {ws_user[w]},
                             Frame("presence", ws_user[w], "absent")))
    /\ ws_pc' = [ws_pc EXCEPT ![w] = "done"]
    /\ UNCHANGED <<coreVars, redis_offline, redis_meta, ws_user, ws_open, ws_drain,
                   now, sent, calls, x3dh,
                   raised, redis_self_destruct, sweep,
                   ws_req, ws_prev, tasks>>

\* _process_websocket_message, type decrypt_message: the client of w builds the
\* request from the fields of frame k it received on w
IsEnvelopeFrame(w, k) ==
    /\ k \in 1..Len(ws_out[w])
    /\ ws_out[w][k].type = "encrypted_message"

FrameRequest(w, k) ==
    LET f == ws_out[w][k]
        e == sent[f.id].message
    IN [sender_id |-> e.sender_id,
        encrypted_content |-> b64decode(b64encode(e.encrypted_content)),
        ephemeral_public_key |-> IF e.ephemeral_public_key # None
                                 THEN b64decode(b64encode(e.ephemeral_public_key))
                                 ELSE None,
        message_number |-> e.message_number,
        is_first_message |-> f.is_first_message = "true"]

decrypt_frame(w, k) ==
    /\ TotalCalls < MaxDecrypt
    /\ ws_pc[w] = "loop"
    /\ ws_open[w]
    /\ IsEnvelopeFrame(w, k)
    /\ ws_user[w] \in DOMAIN users
    /\ LET u == ws_user[w]
           q == FrameRequest(w, k)
           i == ws_out[w][k].id
           r == DecryptMessage(u, q.sender_id, q.encrypted_content,
                               q.ephemeral_public_key, q.message_number,
                               q.is_first_message)
       IN /\ users' = [users EXCEPT ![u].sessions = r.sessions]
          /\ SetConn(send_to_user(ConnState, u,
                 Frame(IF r.ok THEN "decrypted_message" ELSE "decryption_error",
                       i, "absent")).c)
          /\ calls' = [calls EXCEPT ![u] = Append(@,
                [env |-> i,
                 mut |-> IF q.is_first_message = sent[i].is_first_message
                         THEN "none" ELSE "noflag",
                 req |-> q, ok |-> r.ok, content |-> r.content,
                 err |-> r.err, nsent |-> Len(sent),
                 peers_before |-> DOMAIN users[u].sessions,
                 peers_after |-> DOMAIN r.sessions,
                 before |-> SessionOf(u, q.sender_id),
                 pre |-> r.entered,
                 post |-> IF q.sender_id \in DOMAIN r.sessions
                          THEN <<r.sessions[q.sender_id]>> ELSE << >>,
                 via |-> <<w, k>>])]
    /\ UNCHANGED <<keygen, redis_prekey_bundle, redis_x3dh_ephemeral, redis_offline,
                   redis_meta, ws_user, ws_pc, ws_open, ws_drain, now, sent, x3dh,
                   raised, redis_self_destruct, sweep,
                   ws_req, ws_prev, tasks>>

\* mutant: after the error frame the task goes on to its receive loop
WsReject_KeepsServing(w) ==
    /\ ws_pc[w] = "new"
    /\ \A w0 \in Ws : w0 < w => ws_pc[w0] # "new"
    /\ ws_open[w]
    /\ ws_out' = [ws_out EXCEPT ![w] = Append(@, Frame("error", 0, "absent"))]
    /\ ws_pc' = [ws_pc EXCEPT ![w] = "loop"]
    /\ UNCHANGED <<coreVars, redis_presence, redis_offline, redis_meta,
                   active_connections, user_connections, ws_user, ws_open, ws_drain,
                   now, sent, calls, x3dh, raised, redis_self_destruct, sweep,
                   ws_req, ws_prev, tasks>>

\* handle_websocket, first frame of a type other than auth: the error frame
\* goes to the websocket itself and the task returns
WsReject(w) ==
    /\ ws_pc[w] = "new"
    /\ \A w0 \in Ws : w0 < w => ws_pc[w0] # "new"
    /\ ws_open[w]
    /\ ws_out' = [ws_out EXCEPT ![w] = Append(@, Frame("error", 0, "absent"))]
    /\ ws_pc' = [ws_pc EXCEPT ![w] = "done"]
    /\ UNCHANGED <<coreVars, redis_presence, redis_offline, redis_meta,
                   active_connections, user_connections, ws_user, ws_open, ws_drain,
                   now, sent, calls, x3dh, raised, redis_self_destruct, sweep,
                   ws_req, ws_prev, tasks>>

\* _process_websocket_message, type send_message, up to the return or raise of
\* handle_text_message; the reply frame is sent after the next await
process_send_message(w, recipient_id, content) ==
    /\ ws_pc[w] = "loop"
    /\ ws_open[w]
    /\ IF ws_user[w] \in DOMAIN users /\ recipient_id \in DOMAIN users
       THEN /\ handle_text_message_body(ws_user[w], recipient_id, content, 0)
            /\ ws_req' = [ws_req EXCEPT ![w] =
                              IF Len(sent') > Len(sent)
                              THEN [type |-> "message_sent", id |-> Len(sent')]
                              ELSE [type |-> "error", id |-> 0]]
       ELSE /\ Len(raised) < MaxRaise
            /\ raised' = Append(raised,
                   [sender_id |-> ws_user[w], recipient_id |-> recipient_id,
                    err |-> IF ws_user[w] \in DOMAIN users THEN "recipient" ELSE "sender",
                    before |-> << >>, after |-> << >>])
            /\ ws_req' = [ws_req EXCEPT ![w] = [type |-> "error", id |-> 0]]
            /\ UNCHANGED <<coreVars, redis_presence, redis_offline, redis_meta,
                           active_connections, user_connections, ws_user, ws_open,
                           ws_out, ws_drain, now, sent, calls, x3dh,
                           redis_self_destruct, sweep, ws_prev, tasks>>
    /\ ws_pc' = [ws_pc EXCEPT ![w] = "reply"]

\* _process_websocket_message, type send_message: message_sent, or error from
\* the except branch, through send_to_user(user_id, ...)
process_reply(w) ==
    /\ ws_pc[w] = "reply"
    /\ SetConn(send_to_user(ConnState, ws_user[w],
                            Frame(ws_req[w].type, ws_req[w].id, "absent")).c)
    /\ ws_req' = [ws_req EXCEPT ![w] = NoRequest]
    /\ ws_pc' = [ws_pc EXCEPT ![w] = "loop"]
    /\ UNCHANGED <<coreVars, redis_offline, redis_meta, ws_user, ws_open, ws_drain,
                   now, sent, calls, x3dh, raised, redis_self_destruct, sweep,
                   ws_prev, tasks>>

\* the prekey_bundle frames written so far
PrekeyFrames ==
    {<<w, k>> \in Ws \X (1..(2 * MaxQueued + 2 * MaxWs + MaxFrameCalls + MaxGetPrekeys + 4)) :
        k <= Len(ws_out[w]) /\ ws_out[w][k].type = "prekey_bundle"}

\* _process_websocket_message, type get_prekeys for data['user_id'] = user_id:
\* the frame's data is json.loads of the directory entry; the entry of a user is
\* written once, so the frame names the user and FrameData gives the entry
process_get_prekeys(w, user_id) ==
    /\ ws_pc[w] = "loop"
    /\ ws_open[w]
    /\ Cardinality(PrekeyFrames) < MaxGetPrekeys
    /\ IF user_id \in DOMAIN redis_prekey_bundle
       THEN SetConn(send_to_user(ConnState, ws_user[w],
                                 Frame("prekey_bundle", user_id, "absent")).c)
       ELSE UNCHANGED <<redis_presence, active_connections, user_connections, ws_out>>
    /\ UNCHANGED <<coreVars, redis_offline, redis_meta, ws_user, ws_pc, ws_open, ws_drain,
                   now, sent, calls, x3dh, raised, redis_self_destruct, sweep,
                   ws_req, ws_prev, tasks>>

\* the data of a prekey_bundle frame
FrameData(f) == redis_prekey_bundle[f.id]

\* time.time() moves on
Tick ==
    /\ now < MaxTime
    /\ now' = now + 1
    /\ UNCHANGED <<coreVars, redis_offline, redis_meta, connVars, sent, calls, x3dh,
                   raised, redis_self_destruct, sweep,
                   ws_req, ws_prev, tasks>>

\* ------------------------------------------------------------ _handle_self_destruct
\* one iteration of the loop, first await: zrangebyscore(self_destruct_messages,
\* 0, current_time)
SweepRead ==
    /\ sweep.pc = "idle"
    /\ LET due == {m \in redis_self_destruct : m.score <= now}
       IN /\ due # {}
          /\ \E order \in [1..Cardinality(due) -> due] :
                /\ IsZrange(due, order)
                /\ sweep' = [sweep EXCEPT !.pc = "each", !.current_time = now,
                                          !.expired = [k \in 1..Len(order) |-> order[k].id]]
    /\ UNCHANGED <<coreVars, redis_offline, redis_meta, connVars, now, sent, calls, x3dh,
                   raised, redis_self_destruct,
                   ws_req, ws_prev, tasks>>

\* the loop body for one expired id: read message_meta:{id}; when it is there,
\* message_destroyed to the sender and to the recipient; delete message_meta:{id}
SweepOne ==
    /\ sweep.pc = "each"
    /\ sweep.expired # << >>
    /\ LET message_id == Head(sweep.expired)
           meta == message_id \in redis_meta
           data == sent[message_id].message
           destruction_msg == Frame("message_destroyed", message_id, "absent")
           c0 == ConnState
           r1 == IF meta THEN send_to_user(c0, data.sender_id, destruction_msg)
                 ELSE [ok |-> FALSE, c |-> c0]
           r2 == IF meta THEN send_to_user(r1.c, data.recipient_id, destruction_msg)
                 ELSE [ok |-> FALSE, c |-> c0]
       IN /\ SetConn(r2.c)
          /\ redis_meta' = redis_meta \ {message_id}
          /\ sweep' = [sweep EXCEPT
                !.expired = Tail(@),
                !.log = Append(@,
                    [id |-> message_id, meta |-> meta,
                     sender_bound |-> Writable(c0, data.sender_id),
                     recipient_bound |-> Writable(c0, data.recipient_id),
                     to_sender |-> r1.ok, to_recipient |-> r2.ok,
                     frames |-> [w \in Ws |-> Len(ws_out[w])]])]
    /\ UNCHANGED <<coreVars, redis_offline, ws_user, ws_pc, ws_open, ws_drain,
                   now, sent, calls, x3dh, raised, redis_self_destruct,
                   ws_req, ws_prev, tasks>>

\* the loop body for one expired id when redis.delete(message_meta:{id}) raises:
\* the frames were sent, the key stays, the iteration ends in the except branch
\* and the loop starts again after the back-off
SweepOneFailDelete ==
    /\ sweep.pc = "each"
    /\ sweep.expired # << >>
    /\ sweep.fails < MaxSweepFail
    /\ LET message_id == Head(sweep.expired)
           meta == message_id \in redis_meta
           data == sent[message_id].message
           destruction_msg == Frame("message_destroyed", message_id, "absent")
           c0 == ConnState
           r1 == IF meta THEN send_to_user(c0, data.sender_id, destruction_msg)
                 ELSE [ok |-> FALSE, c |-> c0]
           r2 == IF meta THEN send_to_user(r1.c, data.recipient_id, destruction_msg)
                 ELSE [ok |-> FALSE, c |-> c0]
       IN /\ SetConn(r2.c)
          /\ sweep' = [sweep EXCEPT !.pc = "idle", !.expired = << >>, !.fails = @ + 1]
    /\ UNCHANGED <<coreVars, redis_offline, redis_meta, ws_user, ws_pc, ws_open, ws_drain,
                   now, sent, calls, x3dh, raised, redis_self_destruct,
                   ws_req, ws_prev, tasks>>

\* redis.get(message_meta:{id}) or zremrangebyscore raises: nothing was done for
\* the ids left, the iteration ends in the except branch
SweepFail ==
    /\ sweep.pc = "each"
    /\ sweep.fails < MaxSweepFail
    /\ sweep' = [sweep EXCEPT !.pc = "idle", !.expired = << >>, !.fails = @ + 1]
    /\ UNCHANGED <<coreVars, redis_offline, redis_meta, connVars, now, sent, calls, x3dh,
                   raised, redis_self_destruct, ws_req, ws_prev, tasks>>

\* after the loop: zremrangebyscore(self_destruct_messages, 0, current_time)
SweepRemove ==
    /\ sweep.pc = "each"
    /\ sweep.expired = << >>
    /\ redis_self_destruct' = {m \in redis_self_destruct : m.score > sweep.current_time}
    /\ sweep' = [sweep EXCEPT !.pc = "idle"]
    /\ UNCHANGED <<coreVars, redis_offline, redis_meta, connVars, now, sent, calls, x3dh,
                   raised,
                   ws_req, ws_prev, tasks>>

\* ------------------------------------------------------------ specification
NextContent == Len(sent) + 1

Next ==
    \/ \E u \in Users : register_user(u)
    \/ \E s \in Users : \E r \in Users \ {s} : handle_text_message(s, r, NextContent, 0)
    \/ \E u \in Users, i \in 1..MaxSend, mut \in Muts : decrypt_message(u, i, mut)

Spec == Init /\ [][Next]_vars

\* the delivery plane: transports, the offline queue and its replay, with
\* decrypt requests built from the frames a client received
NextDelivery ==
    \/ \E u \in Users : register_user(u)
    \/ \E s \in Users : \E r \in Users \ {s} :
          Len(sent) < MaxQueued /\ handle_text_message(s, r, NextContent, 0)
    \/ \E w \in Ws, u \in Users : WsAuth(w, u)
    \/ \E w \in Ws : DrainRead(w)
    \/ \E w \in Ws : DrainSend(w)
    \/ \E w \in Ws : DrainDelete(w)
    \/ \E w \in Ws : WsBreak(w)
    \/ \E w \in Ws : WsClose(w)
    \/ \E w \in Ws, k \in 1..(2 * MaxQueued + MaxWs + MaxFrameCalls + 2) :
          TotalCalls < MaxFrameCalls /\ decrypt_frame(w, k)
    \/ Tick

SpecDelivery == Init /\ [][NextDelivery]_vars

\* the websocket tasks with the frames clients send: auth or another first
\* frame, send_message, decrypt_message, get_prekeys
NextFrames ==
    \/ \E u \in Users : register_user(u)
    \/ \E w \in Ws, u \in Users : WsAuth(w, u)
    \/ \E w \in Ws : WsReject(w)
    \/ \E w \in Ws : DrainRead(w)
    \/ \E w \in Ws : DrainSend(w)
    \/ \E w \in Ws : DrainDelete(w)
    \/ \E w \in Ws : \E r \in Users \ {ws_user[w]} :
          Len(sent) < MaxQueued /\ process_send_message(w, r, NextContent)
    \/ \E w \in Ws : process_reply(w)
    \/ \E w \in Ws, k \in 1..(2 * MaxQueued + 2 * MaxWs + MaxFrameCalls + MaxGetPrekeys + 4) :
          TotalCalls < MaxFrameCalls /\ decrypt_frame(w, k)
    \/ \E w \in Ws, u \in Users : process_get_prekeys(w, u)
    \/ \E w \in Ws : WsBreak(w)
    \/ \E w \in Ws : WsClose(w)

SpecFrames == Init /\ [][NextFrames]_vars

\* decrypt requests that may be sent a second time
NextResubmit ==
    \/ \E u \in Users : register_user(u)
    \/ \E s \in Users : \E r \in Users \ {s} : handle_text_message(s, r, NextContent, 0)
    \/ \E u \in Users, i \in 1..MaxSend, mut \in Muts : decrypt_message(u, i, mut)
    \/ \E u \in Users, j \in 1..MaxDecrypt : decrypt_message_again(u, j)

SpecResubmit == Init /\ [][NextResubmit]_vars

\* ---------------------------------------- calls suspended at an await
\* handle_text_message up to the first await of _establish_sender_session:
\* is_first_message is computed, and the call waits for the recipient's bundle.
\* A send that finds a session has no await before encrypt: it is the action
\* handle_text_message.  A task that has returned can take the next call
send_begin(t, sender_id, recipient_id, content) ==
    /\ tasks[t].pc \in {"idle", "done"}
    /\ sender_id \in DOMAIN users
    /\ recipient_id \in DOMAIN users
    /\ recipient_id \notin DOMAIN users[sender_id].sessions
    /\ tasks' = [tasks EXCEPT ![t] =
                    [NoTask EXCEPT !.pc = "get_bundle", !.user = sender_id,
                                   !.peer = recipient_id, !.arg = content]]
    /\ UNCHANGED <<coreVars, connVars, redis_offline, redis_meta, now, sent,
                   calls, x3dh, raised, redis_self_destruct, sweep, ws_req, ws_prev>>

\* _establish_sender_session from the return of redis.get to the await of
\* redis.setex: the session is assigned to sender.sessions before the write
send_establish(t) ==
    /\ tasks[t].pc = "get_bundle"
    /\ LET sender_id == tasks[t].user
           recipient_id == tasks[t].peer
           k == KeyId(sender_id, keygen[sender_id])
           est == _establish_sender_session(sender_id, recipient_id, k)
       IN IF ~est.ok
          THEN /\ Len(raised) < MaxRaise
               /\ raised' = Append(raised,
                      [sender_id |-> sender_id, recipient_id |-> recipient_id,
                       err |-> "bundle", before |-> << >>,
                       after |-> SendView(sender_id)])
               /\ tasks' = [tasks EXCEPT ![t] = [NoTask EXCEPT !.pc = "done"]]
               /\ UNCHANGED <<users, keygen>>
          ELSE /\ users' = [users EXCEPT ![sender_id].sessions = est.sessions]
               /\ keygen' = [keygen EXCEPT ![sender_id] = @ + 2]
               /\ tasks' = [tasks EXCEPT ![t].pc = "setex", ![t].keys = k,
                               ![t].eph = est.x3dh_ephemeral[<<sender_id, recipient_id>>],
                               ![t].installed = TRUE]
               /\ UNCHANGED raised
    /\ UNCHANGED <<redis_prekey_bundle, redis_x3dh_ephemeral, connVars, redis_offline,
                   redis_meta, now, sent, calls, x3dh, redis_self_destruct,
                   sweep, ws_req, ws_prev>>

\* redis.setex of x3dh_ephemeral returns, and handle_text_message runs on:
\* encrypt with the session sender.sessions holds now, deliver or store
send_finish(t) ==
    /\ tasks[t].pc = "setex"
    /\ LET sender_id == tasks[t].user
           recipient_id == tasks[t].peer
           content == tasks[t].arg
           st0 == users[sender_id].sessions[recipient_id]
           plaintext == [content |-> content, sender_id |-> sender_id]
           r == encrypt(st0, plaintext, KeyId(sender_id, keygen[sender_id]))
           used == IF st0.chain_key_send = None /\ st0.remote_public_key # None
                   THEN 1 ELSE 0
           message == EncryptedMessage(Len(sent) + 1, sender_id, recipient_id, r,
                                       r.st.previous_chain_length, now, 0)
       IN /\ r.ok
          /\ Len(sent) < MaxSend
          /\ redis_x3dh_ephemeral' =
                Put(redis_x3dh_ephemeral, <<sender_id, recipient_id>>, tasks[t].eph)
          /\ users' = [users EXCEPT ![sender_id].sessions = Put(@, recipient_id, r.st)]
          /\ keygen' = [keygen EXCEPT ![sender_id] = @ + used]
          /\ Delivery(message, content, TRUE)
    /\ tasks' = [tasks EXCEPT ![t] = [NoTask EXCEPT !.pc = "done", !.installed = TRUE]]
    /\ UNCHANGED <<redis_prekey_bundle, ws_user, ws_pc, ws_open, ws_drain, now, calls,
                   x3dh, raised, redis_self_destruct, sweep, ws_req, ws_prev>>

\* redis.setex of x3dh_ephemeral raises (the directory is unreachable): the
\* exception leaves _establish_sender_session and handle_text_message
send_setex_fails(t) ==
    /\ tasks[t].pc = "setex"
    /\ Len(raised) < MaxRaise
    /\ raised' = Append(raised,
           [sender_id |-> tasks[t].user, recipient_id |-> tasks[t].peer,
            err |-> "setex", before |-> << >>, after |-> SendView(tasks[t].user)])
    /\ tasks' = [tasks EXCEPT ![t] = [NoTask EXCEPT !.pc = "done", !.installed = TRUE]]
    /\ UNCHANGED <<coreVars, connVars, redis_offline, redis_meta, now, sent,
                   calls, x3dh, redis_self_destruct, sweep, ws_req, ws_prev>>

\* MessageHandler.decrypt_message for the first-message envelope i up to the
\* first await of _establish_receiver_session.  A request that finds a session,
\* or is not flagged, has no await: it is the action decrypt_message
decrypt_begin(t, u, i) ==
    /\ tasks[t].pc \in {"idle", "done"}
    /\ i \in 1..Len(sent)
    /\ sent[i].message.recipient_id = u
    /\ u \in DOMAIN users
    /\ sent[i].message.sender_id \in DOMAIN users
    /\ sent[i].message.sender_id \notin DOMAIN users[u].sessions
    /\ sent[i].is_first_message
    /\ tasks' = [tasks EXCEPT ![t] =
                    [NoTask EXCEPT !.pc = "get_ephemeral", !.user = u,
                                   !.peer = sent[i].message.sender_id, !.arg = i]]
    /\ UNCHANGED <<coreVars, connVars, redis_offline, redis_meta, now, sent,
                   calls, x3dh, raised, redis_self_destruct, sweep, ws_req, ws_prev>>

\* the record of a decrypt_message call that ran as task t
TaskCall(t, r, before) ==
    LET u == tasks[t].user
        q == Request(u, tasks[t].arg, "none")
    IN [env |-> tasks[t].arg, mut |-> "none", req |-> q, ok |-> r.ok,
        content |-> r.content, err |-> r.err, nsent |-> Len(sent),
        peers_before |-> DOMAIN users[u].sessions,
        peers_after |-> DOMAIN r.sessions,
        before |-> before,
        pre |-> r.entered,
        post |-> IF q.sender_id \in DOMAIN r.sessions
                 THEN <<r.sessions[q.sender_id]>> ELSE << >>,
        via |-> << >>]

\* _establish_receiver_session from the return of redis.get(x3dh_ephemeral) to
\* the await of redis.get(prekey_bundle)
decrypt_read_ephemeral(t) ==
    /\ tasks[t].pc = "get_ephemeral"
    /\ LET u == tasks[t].user
           sender_id == tasks[t].peer
       IN IF <<sender_id, u>> \notin DOMAIN redis_x3dh_ephemeral
          THEN /\ TotalCalls < MaxDecrypt
               /\ calls' = [calls EXCEPT ![u] = Append(@,
                     TaskCall(t, [ok |-> FALSE, sessions |-> users[u].sessions,
                                  content |-> 0, err |-> "establish",
                                  entered |-> << >>], SessionOf(u, sender_id)))]
               /\ tasks' = [tasks EXCEPT ![t] = [NoTask EXCEPT !.pc = "done"]]
          ELSE /\ tasks' = [tasks EXCEPT ![t].pc = "get_sender_bundle",
                               ![t].eph = redis_x3dh_ephemeral[<<sender_id, u>>]]
               /\ UNCHANGED calls
    /\ UNCHANGED <<coreVars, connVars, redis_offline, redis_meta, now, sent,
                   x3dh, raised, redis_self_destruct, sweep, ws_req, ws_prev>>

\* [ok, st]: the ratchet _establish_receiver_session builds from the ephemeral
\* key it read before its second await
ReceiverRatchet(receiver_id, sender_id, alice_ratchet_public_key, ephemeral_data) ==
    IF sender_id \notin DOMAIN redis_prekey_bundle
    THEN [ok |-> FALSE, st |-> RatchetState]
    ELSE LET receiver == users[receiver_id]
             shared_secret == calculate_agreement_bob(
                 receiver.identity_key_pair, receiver.signed_prekey_private, None,
                 b64decode(redis_prekey_bundle[sender_id].identity_key),
                 b64decode(ephemeral_data))
             signed_prekey_public == b64decode(receiver.prekey_bundle.signed_prekey.public)
         IN init_bob(RatchetState, shared_secret, receiver.signed_prekey_private,
                     signed_prekey_public, alice_ratchet_public_key)

\* redis.get(prekey_bundle) returns: the ratchet is built and assigned to
\* recipient.sessions, and decrypt_message runs on to ratchet.decrypt
decrypt_finish(t) ==
    /\ tasks[t].pc = "get_sender_bundle"
    /\ TotalCalls < MaxDecrypt
    /\ LET u == tasks[t].user
           sender_id == tasks[t].peer
           q == Request(u, tasks[t].arg, "none")
           est == ReceiverRatchet(u, sender_id, q.ephemeral_public_key, tasks[t].eph)
           d == decrypt(est.st, q.encrypted_content, q.ephemeral_public_key,
                        q.message_number)
           r == IF ~est.ok
                THEN [ok |-> FALSE, sessions |-> users[u].sessions, content |-> 0,
                      err |-> "establish", entered |-> << >>]
                ELSE [ok |-> d.ok, sessions |-> Put(users[u].sessions, sender_id, d.st),
                      content |-> d.plaintext.content, err |-> d.err,
                      entered |-> <<est.st>>]
       IN /\ users' = [users EXCEPT ![u].sessions = r.sessions]
          /\ calls' = [calls EXCEPT ![u] =
                          Append(@, TaskCall(t, r, SessionOf(u, sender_id)))]
          /\ tasks' = [tasks EXCEPT ![t] =
                          [NoTask EXCEPT !.pc = "done", !.installed = est.ok]]
    /\ UNCHANGED <<keygen, redis_prekey_bundle, redis_x3dh_ephemeral, connVars,
                   redis_offline, redis_meta, now, sent, x3dh, raised,
                   redis_self_destruct, sweep, ws_req, ws_prev>>

\* sends and decrypt requests that interleave at their awaits: two websocket
\* tasks of one user, or a websocket task and POST /api/messages/send
NextAwait ==
    \/ \E u \in Users : register_user(u)
    \/ \E t \in Tasks, s \in Users : \E r \in Users \ {s} :
          Len(sent) < MaxQueued /\ send_begin(t, s, r, NextContent)
    \/ \E t \in Tasks : send_establish(t)
    \/ \E t \in Tasks : send_finish(t)
    \/ \E t \in Tasks : send_setex_fails(t)
    \/ \E s \in Users : \E r \in Users \ {s} :
          /\ Len(sent) < MaxQueued
          /\ s \in DOMAIN users
          /\ r \in DOMAIN users[s].sessions
          /\ handle_text_message(s, r, NextContent, 0)
    \/ \E t \in Tasks, u \in Users, i \in 1..MaxSend :
          TotalCalls < MaxFrameCalls /\ decrypt_begin(t, u, i)
    \/ \E t \in Tasks : decrypt_read_ephemeral(t)
    \/ \E t \in Tasks : decrypt_finish(t)
    \/ \E u \in Users, i \in 1..MaxSend :
          /\ i <= Len(sent)
          /\ TotalCalls < MaxFrameCalls
          /\ u \in DOMAIN users
          /\ sent[i].message.sender_id \in DOMAIN users[u].sessions \/ ~sent[i].is_first_message
          /\ decrypt_message(u, i, "none")

SpecAwait == Init /\ [][NextAwait]_vars

\* the 300 s lifetime connect gave presence:{user} runs out: nothing renews
\* the key while the connection lasts.  The seconds since connect are not
\* counted: the key may expire at any step after it was set
presence_expires(u) ==
    /\ u \in redis_presence
    /\ redis_presence' = redis_presence \ {u}
    /\ UNCHANGED <<coreVars, redis_offline, redis_meta, active_connections,
                   user_connections, ws_user, ws_pc, ws_open, ws_out, ws_drain, now,
                   sent, calls, x3dh, raised, redis_self_destruct, sweep, ws_req,
                   ws_prev, tasks>>

\* sends to recipients whose connection outlives its presence key
NextPresence ==
    \/ \E u \in Users : register_user(u)
    \/ \E s \in Users : \E r \in Users \ {s} :
          Len(sent) < MaxQueued /\ handle_text_message(s, r, NextContent, 0)
    \/ \E w \in Ws, u \in Users : WsAuth(w, u)
    \/ \E w \in Ws : DrainRead(w)
    \/ \E w \in Ws : DrainSend(w)
    \/ \E w \in Ws : DrainDelete(w)
    \/ \E w \in Ws : WsBreak(w)
    \/ \E w \in Ws : WsClose(w)
    \/ \E u \in Users : presence_expires(u)

\* a websocket task that can run does run: the replay of the offline queue
\* goes on to its end, and the finally block runs once receive_text has raised.
\* What clients do (connect, send, break a transport) is not forced
SpecPresence ==
    /\ Init
    /\ [][NextPresence]_vars
    /\ \A w \in Ws : WF_vars(DrainRead(w) \/ DrainSend(w) \/ DrainDelete(w) \/ WsClose(w))

\* decrypt requests whose message number lies MAX_SKIP positions ahead of the
\* receiving counter, the largest jump _skip_message_keys accepts
NextWindow ==
    \/ \E u \in Users : register_user(u)
    \/ \E s \in Users : \E r \in Users \ {s} : handle_text_message(s, r, NextContent, 0)
    \/ \E u \in Users, i \in 1..MaxSend, mut \in {"none", "edge"} :
          decrypt_message(u, i, mut)

SpecWindow == Init /\ [][NextWindow]_vars

\* decrypt requests with malformed input
NextMalformed ==
    \/ \E u \in Users : register_user(u)
    \/ \E s \in Users : \E r \in Users \ {s} : handle_text_message(s, r, NextContent, 0)
    \/ \E u \in Users, i \in 1..MaxSend, mut \in {"none"} \cup Malformed :
          decrypt_message(u, i, mut)

SpecMalformed == Init /\ [][NextMalformed]_vars

\* registration seen at its await: register_user puts the User into users
\* (line 40) and then awaits redis.set of the bundle (lines 41-44)
register_user_begin(u) ==
    /\ u \notin DOMAIN users
    /\ users' = Put(users, u, User(u))
    /\ keygen' = [keygen EXCEPT ![u] = 2 + PREKEY_BATCH_SIZE]
    /\ UNCHANGED <<redis_prekey_bundle, redis_x3dh_ephemeral, redis_offline, redis_meta,
                   connVars, now, sent, calls, x3dh, raised, redis_self_destruct, sweep,
                   ws_req, ws_prev, tasks>>

register_user_store(u) ==
    /\ u \in DOMAIN users
    /\ u \notin DOMAIN redis_prekey_bundle
    /\ redis_prekey_bundle' = Put(redis_prekey_bundle, u, users[u].prekey_bundle)
    /\ UNCHANGED <<users, keygen, redis_x3dh_ephemeral, redis_offline, redis_meta,
                   connVars, now, sent, calls, x3dh, raised, redis_self_destruct, sweep,
                   ws_req, ws_prev, tasks>>

\* first contact while the recipient's bundle may not be in the directory yet
NextHandshake ==
    \/ \E u \in Users : register_user_begin(u)
    \/ \E u \in Users : register_user_store(u)
    \/ \E s \in Users : \E r \in Users \ {s} : handle_text_message(s, r, NextContent, 0)
    \/ \E u \in Users, i \in 1..MaxSend : decrypt_message(u, i, "none")

SpecHandshake == Init /\ [][NextHandshake]_vars

\* self-destructing messages: sends with self_destruct_seconds, transports,
\* the offline queue and the sweeper
NextSweep ==
    \/ \E u \in Users : register_user(u)
    \/ \E s \in Users : \E r \in Users \ {s} : \E sd \in 0..MaxTime :
          Len(sent) < MaxExpiring /\ handle_text_message(s, r, NextContent, sd)
    \/ \E w \in Ws, u \in Users : WsAuth(w, u)
    \/ \E w \in Ws : DrainRead(w)
    \/ \E w \in Ws : DrainSend(w)
    \/ \E w \in Ws : DrainDelete(w)
    \/ \E w \in Ws : WsBreak(w)
    \/ \E w \in Ws : WsClose(w)
    \/ Tick
    \/ SweepRead
    \/ SweepOne
    \/ SweepRemove

SpecSweep == Init /\ [][NextSweep]_vars

\* the sweeper with redis calls that can fail
NextSweepRetry ==
    \/ \E u \in Users : register_user(u)
    \/ \E s \in Users : \E r \in Users \ {s} : \E sd \in 0..MaxTime :
          Len(sent) < MaxExpiring /\ handle_text_message(s, r, NextContent, sd)
    \/ \E w \in Ws, u \in Users : WsAuth(w, u)
    \/ \E w \in Ws : DrainRead(w)
    \/ \E w \in Ws : DrainSend(w)
    \/ \E w \in Ws : DrainDelete(w)
    \/ \E w \in Ws : WsBreak(w)
    \/ \E w \in Ws : WsClose(w)
    \/ Tick
    \/ SweepRead
    \/ SweepOne
    \/ SweepRemove
    \/ SweepOneFailDelete
    \/ SweepFail

SpecSweepRetry == Init /\ [][NextSweepRetry]_vars

\* ------------------------------------------------------------ X3DH on its own
\* Both agreement functions applied to key pairs drawn from a pool: ida, epha
\* are Alice's identity and ephemeral keys, idb, spkb, otpk Bob's identity key,
\* signed prekey and one-time prekey; alice_otpk says whether the bundle Alice
\* reads holds the one-time prekey, bob_otpk whether Bob passes its private half.
InitX3DH ==
    /\ users = << >>
    /\ keygen = [u \in Users |-> 0]
    /\ redis_prekey_bundle = << >>
    /\ redis_x3dh_ephemeral = << >>
    /\ redis_presence = {}
    /\ redis_offline = [u \in Users |-> {}]
    /\ redis_meta = {}
    /\ active_connections = {}
    /\ user_connections = << >>
    /\ ws_user = [w \in Ws |-> 0]
    /\ ws_pc = [w \in Ws |-> "new"]
    /\ ws_open = [w \in Ws |-> TRUE]
    /\ ws_out = [w \in Ws |-> << >>]
    /\ ws_drain = [w \in Ws |-> << >>]
    /\ now = 0
    /\ sent = << >>
    /\ calls = [u \in Users |-> << >>]
    /\ x3dh \in [ida : 1..KeyPool, epha : 1..KeyPool, idb : 1..KeyPool,
                 spkb : 1..KeyPool, otpk : 1..KeyPool,
                 alice_otpk : BOOLEAN, bob_otpk : BOOLEAN,
                 done : {FALSE}, alice : {None}, bob : {None}]
    /\ raised = << >>
    /\ redis_self_destruct = {}
    /\ sweep = NoSweep
    /\ ws_req = [w \in Ws |-> NoRequest]
    /\ ws_prev = [w \in Ws |-> 0]
    /\ tasks = [t \in Tasks |-> NoTask]

X3dhAgree ==
    /\ ~x3dh.done
    /\ x3dh' = [x3dh EXCEPT
          !.done = TRUE,
          !.alice = calculate_agreement_alice(
              <<x3dh.ida>>, <<x3dh.epha>>,
              [identity_key |-> Pub(x3dh.idb), signed_prekey |-> Pub(x3dh.spkb),
               one_time_prekey |-> IF x3dh.alice_otpk THEN Pub(x3dh.otpk) ELSE None]),
          !.bob = calculate_agreement_bob(
              <<x3dh.idb>>, <<x3dh.spkb>>,
              IF x3dh.bob_otpk THEN <<x3dh.otpk>> ELSE None,
              Pub(x3dh.ida), Pub(x3dh.epha))]
    /\ UNCHANGED <<users, keygen, redis_prekey_bundle, redis_x3dh_ephemeral,
                   redis_presence, redis_offline, redis_meta, active_connections,
                   user_connections, ws_user, ws_pc, ws_open, ws_out, ws_drain,
                   now, sent, calls, raised, redis_self_destruct, sweep,
                   ws_req, ws_prev, tasks>>

NextX3DH == X3dhAgree

SpecX3DH == InitX3DH /\ [][NextX3DH]_vars

\* ------------------------------------------------------------ reading the logs
CallIds == {<<u, j>> \in Users \X (1..MaxDecrypt) : j <= Len(calls[u])}
Call(x) == calls[x[1]][x[2]]
Env(x) == sent[Call(x).env]

\* the call returned the content given to the send that produced its envelope
Returned(x) == Call(x).ok /\ Call(x).content = Env(x).content

\* up to call x, user x[1] submitted each envelope once, and each sender's
\* envelopes in the order they were sent
InSendOrder(x) ==
    /\ \A j1, j2 \in 1..x[2] : j1 # j2 => calls[x[1]][j1].env # calls[x[1]][j2].env
    /\ \A j \in 1..x[2] : \A i \in 1..Len(sent) :
          (/\ i < calls[x[1]][j].env
           /\ sent[i].message.sender_id = sent[calls[x[1]][j].env].message.sender_id
           /\ sent[i].message.recipient_id = x[1])
          => \E j0 \in 1..(j - 1) : calls[x[1]][j0].env = i

\* ... and every one of them unmodified, with the flag its sender computed
InOrder(x) ==
    /\ \A j \in 1..x[2] : calls[x[1]][j].mut = "none"
    /\ InSendOrder(x)

\* up to call x, user x[1] submitted unmodified envelopes only, each once, in
\* any order
AnyOrder(x) ==
    /\ \A j \in 1..x[2] : calls[x[1]][j].mut = "none"
    /\ \A j1, j2 \in 1..x[2] : j1 # j2 => calls[x[1]][j1].env # calls[x[1]][j2].env

\* ------------------------------------------------------------ claims
\* C1: with both directions in use and every envelope submitted unmodified, once
\* and in send order, every decrypt_message call returns the content that was
\* given to the handle_text_message call that produced the envelope.
C1_RoundTrip == \A x \in CallIds : InOrder(x) => Returned(x)

\* C2: a ratchet decrypt that fails on the tag check, on the skip limit or on a
\* missing receiving chain leaves the RatchetState as it was on entry.
C2_FailedDecryptKeepsState ==
    \A x \in CallIds :
        (~Call(x).ok /\ Call(x).err \in {"aead", "skip", "nochain"})
        => Call(x).post = Call(x).pre

\* C3: when the decrypt of a tampered copy of envelope n has failed, and only the
\* tampering made it fail, the next call, on the unmodified envelope n+1 of the
\* same chain, returns that envelope's content.
TamperThenNext(u, j) ==
    LET prev == calls[u][j - 1]
        last == calls[u][j]
    IN /\ prev.mut = "tamper" /\ ~prev.ok /\ prev.err = "aead"
       /\ last.mut = "none"
       /\ last.req.sender_id = prev.req.sender_id
       /\ last.req.ephemeral_public_key = prev.req.ephemeral_public_key
       /\ last.req.message_number = prev.req.message_number + 1
       /\ last.before = prev.post
       /\ LET d1 == decrypt(prev.pre[1], sent[prev.env].message.encrypted_content,
                            prev.req.ephemeral_public_key, prev.req.message_number)
          IN /\ d1.ok
             /\ decrypt(d1.st, last.req.encrypted_content,
                        last.req.ephemeral_public_key, last.req.message_number).ok

C4_AnyPermutation ==
    \A x \in CallIds :
        (AnyOrder(x) /\ \A i \in 1..Len(sent) : sent[i].message.sender_id # x[1])
        => Returned(x)

\* C5: a decrypt whose message number is more than MAX_SKIP ahead of the
\* receiving counter fails; and the next call, on an unmodified envelope that
\* the session could decrypt before the failed call, returns its content.
FarThenNext(u, j) ==
    LET prev == calls[u][j - 1]
        last == calls[u][j]
    IN /\ prev.mut = "far" /\ prev.err = "skip"
       /\ last.mut = "none"
       /\ last.req.sender_id = prev.req.sender_id
       /\ last.before = prev.post
       /\ decrypt(prev.pre[1], last.req.encrypted_content,
                  last.req.ephemeral_public_key, last.req.message_number).ok

C5_SkipLimitRecoverable ==
    /\ \A x \in CallIds : Call(x).mut = "far" => ~Call(x).ok
    /\ \A u \in Users : \A j \in 2..Len(calls[u]) :
          FarThenNext(u, j) => Returned(<<u, j>>)

C5_Witness ==
    \E u \in Users : \E j \in 2..Len(calls[u]) :
        FarThenNext(u, j) /\ Returned(<<u, j>>)

\* C7: when the first sends in both directions were made before any decrypt,
\* each party's decrypt of the other's first message returns its content.
FirstSendsCrossed(x) ==
    \E i1, i2 \in 1..Call(x).nsent :
        /\ sent[i1].is_first_message /\ sent[i2].is_first_message
        /\ sent[i1].message.sender_id = sent[i2].message.recipient_id
        /\ sent[i2].message.sender_id = sent[i1].message.recipient_id
        /\ \A y \in CallIds : Call(y).nsent >= i1 /\ Call(y).nsent >= i2

C7_CrossedFirstSends ==
    \A x \in CallIds :
        (InOrder(x) /\ Env(x).is_first_message /\ FirstSendsCrossed(x))
        => Returned(x)

\* C10: decrypt_message for a sender without a session and with
\* is_first_message = false fails and adds no session.
NoSessionNoFlag(x) ==
    /\ Call(x).req.sender_id \notin Call(x).peers_before
    /\ ~Call(x).req.is_first_message

C10_NoSessionNoFlagFails ==
    \A x \in CallIds :
        NoSessionNoFlag(x) =>
            /\ ~Call(x).ok
            /\ Call(x).err = "nosession"
            /\ Call(x).peers_after = Call(x).peers_before

C10_Witness == \E x \in CallIds : NoSessionNoFlag(x) /\ ~Call(x).ok

\* C6: Alice's and Bob's X3DH agreements over mirrored key pairs give the same
\* shared secret whenever both use the one-time prekey or neither does.
C6_AgreementsEqual ==
    (x3dh.done /\ x3dh.alice_otpk = x3dh.bob_otpk) => x3dh.alice = x3dh.bob

C6_Witness ==
    /\ x3dh.done /\ x3dh.alice_otpk /\ x3dh.bob_otpk
    /\ x3dh.ida # x3dh.idb /\ x3dh.epha # x3dh.spkb /\ x3dh.ida # x3dh.epha
    /\ x3dh.alice = x3dh.bob

\* C8: a recipient that has sent nothing itself and builds its decrypt requests
\* from the frames replayed from its offline queue, in send order, gets the
\* original content of every one of them.
FromReplayedFrames(x) ==
    /\ \A j \in 1..x[2] :
          /\ calls[x[1]][j].via # << >>
          /\ ws_out[calls[x[1]][j].via[1]][calls[x[1]][j].via[2]].is_first_message = "absent"
    /\ \A i \in 1..Len(sent) : sent[i].message.sender_id # x[1]
    /\ InSendOrder(x)

C8_OfflineReplayDecrypts ==
    \A x \in CallIds : FromReplayedFrames(x) => Returned(x)

\* C9: an envelope that was put on offline_messages:{user} is on that queue
\* until it has been written to a transport of that user.
WrittenTo(u, i) ==
    \E w \in Ws : \E k \in 1..Len(ws_out[w]) :
        /\ ws_user[w] = u
        /\ ws_out[w][k].type = "encrypted_message"
        /\ ws_out[w][k].id = i

C9_QueuedUntilWritten ==
    \A i \in 1..Len(sent) :
        ~sent[i].online =>
            \/ \E m \in redis_offline[sent[i].message.recipient_id] : m.id = i
            \/ WrittenTo(sent[i].message.recipient_id, i)

\* C11: a handle_text_message call to a recipient without a session whose
\* prekey bundle is not in the directory raises, and it leaves sender.sessions,
\* the x3dh_ephemeral keys, the transports and the offline queues as they were
\* and returns no envelope.
NoBundleFirstSend(e) ==
    /\ e.recipient_id \notin DOMAIN e.before.sessions
    /\ e.err = "bundle"

C11_MissingBundleAborts ==
    /\ \A j \in 1..Len(raised) :
          NoBundleFirstSend(raised[j]) => raised[j].after = raised[j].before
    /\ \A i \in 1..Len(sent) :
          sent[i].is_first_message => sent[i].bundle_present

C11_Witness ==
    \E j \in 1..Len(raised) :
        /\ NoBundleFirstSend(raised[j])
        /\ raised[j].after = raised[j].before
        /\ raised[j].sender_id \in DOMAIN redis_prekey_bundle

\* C12: a decrypt request with a missing ratchet public key, one that is not
\* 32 bytes long, or a ciphertext shorter than 28 bytes fails and leaves the
\* receiver's sessions map and the state of the addressed session as they were.
C12_MalformedInputKeepsState ==
    \A x \in CallIds :
        Call(x).mut \in Malformed =>
            /\ ~Call(x).ok
            /\ Call(x).peers_after = Call(x).peers_before
            /\ Call(x).post = Call(x).before

\* C13: the envelopes of one sending chain (same sender, recipient and ratchet
\* public key) carry the message numbers 0, 1, 2, ... in the order they were
\* encrypted, and a sending DH ratchet step applied to any session leaves
\* message_number_send at 0.
SameChain(i, j) ==
    /\ sent[i].message.sender_id = sent[j].message.sender_id
    /\ sent[i].message.recipient_id = sent[j].message.recipient_id
    /\ sent[i].message.ephemeral_public_key = sent[j].message.ephemeral_public_key

EarlierOnChain(i) == {j \in 1..(i - 1) : SameChain(i, j)}

C13_SendNumbersCount ==
    /\ \A i \in 1..Len(sent) :
          sent[i].message.message_number = Cardinality(EarlierOnChain(i))
    /\ \A u \in DOMAIN users : \A p \in DOMAIN users[u].sessions :
          LET st == users[u].sessions[p]
              r == _dh_ratchet_send(st, st.remote_public_key, KeyId(u, keygen[u]))
          IN r.ok => r.st.message_number_send = 0

C13_Witness ==
    /\ \E i \in 1..Len(sent) :
          /\ sent[i].message.message_number = 1
          /\ ~sent[i].is_first_message
          /\ \E j \in EarlierOnChain(i) : ~sent[j].is_first_message
    /\ \E u \in DOMAIN users : \E p \in DOMAIN users[u].sessions :
          /\ users[u].sessions[p].message_number_send = 2
          /\ _dh_ratchet_send(users[u].sessions[p], users[u].sessions[p].remote_public_key,
                              KeyId(u, keygen[u])).ok

\* C14: when a party that already has a sending chain has decrypted an envelope
\* carrying a peer ratchet public key it had not seen before, the next envelope
\* it sends to that peer carries a ratchet public key different from those of
\* its earlier envelopes and has message_number 0.
NewPeerKeyDecrypt(c) ==
    /\ c.ok
    /\ c.before # << >>
    /\ c.before[1].chain_key_send # None
    /\ c.before[1].remote_public_key # c.req.ephemeral_public_key

NextSendAfter(u, c, i) ==
    /\ i > c.nsent
    /\ sent[i].message.sender_id = u
    /\ sent[i].message.recipient_id = c.req.sender_id
    /\ \A i0 \in (c.nsent + 1)..(i - 1) :
          ~(sent[i0].message.sender_id = u
            /\ sent[i0].message.recipient_id = c.req.sender_id)

C14_SendRatchetAfterNewPeerKey ==
    \A u \in Users : \A j \in 1..Len(calls[u]) : \A i \in 1..Len(sent) :
        (NewPeerKeyDecrypt(calls[u][j]) /\ NextSendAfter(u, calls[u][j], i))
        => /\ sent[i].message.message_number = 0
           /\ EarlierOnChain(i) = {}

\* C15: the envelope a party sends next after it has decrypted a new peer
\* ratchet public key, which is to open a new sending chain, carries
\* previous_chain_length equal to the number of envelopes the party had
\* encrypted for that peer on its sending chain before.
SentBefore(i) ==
    {j \in 1..(i - 1) : /\ sent[j].message.sender_id = sent[i].message.sender_id
                        /\ sent[j].message.recipient_id = sent[i].message.recipient_id}

C15_PreviousChainLength ==
    \A u \in Users : \A j \in 1..Len(calls[u]) : \A i \in 1..Len(sent) :
        (NewPeerKeyDecrypt(calls[u][j]) /\ NextSendAfter(u, calls[u][j], i))
        => sent[i].message.previous_chain_length = Cardinality(SentBefore(i))

\* C16: a party that has only sent to a peer holds a sending chain and no
\* receiving chain; a party that has only received from a peer holds a receiving
\* chain and no sending chain; and when A has sent, B has decrypted and replied,
\* and A has decrypted B's first reply, both ratchets hold both chains and A's
\* message_number_recv for B is 1.
SentTo(u, p) ==
    {i \in 1..Len(sent) : sent[i].message.sender_id = u /\ sent[i].message.recipient_id = p}

CallsFrom(u, p) == {j \in 1..Len(calls[u]) : calls[u][j].req.sender_id = p}

Bidirectional(st) == st.chain_key_send # None /\ st.chain_key_recv # None

FirstReplyDecrypted(u, j) ==
    LET c == calls[u][j]
    IN /\ c.ok /\ c.mut = "none"
       /\ c.req.message_number = 0
       /\ ~c.req.is_first_message
       /\ c.before # << >>
       /\ c.before[1].chain_key_send # None
       /\ c.before[1].chain_key_recv = None

C16_ReachesBidirectional ==
    /\ \A u \in DOMAIN users : \A p \in DOMAIN users[u].sessions :
          LET st == users[u].sessions[p]
          IN /\ (SentTo(u, p) # {} /\ CallsFrom(u, p) = {})
                => (st.chain_key_send # None /\ st.chain_key_recv = None)
             /\ SentTo(u, p) = {}
                => (st.chain_key_send = None /\ st.chain_key_recv # None)
    /\ \A u \in Users : \A j \in 1..Len(calls[u]) :
          FirstReplyDecrypted(u, j) =>
              LET p == calls[u][j].req.sender_id
              IN /\ Bidirectional(calls[u][j].post[1])
                 /\ calls[u][j].post[1].message_number_recv = 1
                 /\ u \in DOMAIN users[p].sessions
                 /\ Bidirectional(users[p].sessions[u])

C16_Witness ==
    \E u \in Users : \E j \in 1..Len(calls[u]) :
        /\ FirstReplyDecrypted(u, j)
        /\ Bidirectional(users[u].sessions[calls[u][j].req.sender_id])
        /\ users[u].sessions[calls[u][j].req.sender_id].message_number_recv = 1
        /\ Len(sent) = 2

\* C17: for every message sent with self_destruct_seconds, once the sweeper
\* has processed its expiry, message_meta:{id} is gone, the id is out of
\* self_destruct_messages when the iteration has ended, and a message_destroyed
\* frame was written to the sender and to the recipient, each of which was
\* bound to a writable transport at that time.
Swept(k) == sweep.log[k]

C17_ExpiryNotifiesBoth ==
    \A k \in 1..Len(sweep.log) :
        /\ Swept(k).id \notin redis_meta
        /\ sweep.pc = "idle" =>
              \A m \in redis_self_destruct : m.id # Swept(k).id
        /\ (Swept(k).sender_bound /\ Swept(k).recipient_bound)
              => (Swept(k).to_sender /\ Swept(k).to_recipient)

\* C18: the step in which handle_text_message returns an envelope either
\* writes the envelope's frame to the transport the recipient is bound to or
\* adds the envelope to offline_messages:{recipient}, and never does both.
WrittenBySend(i) ==
    \E w \in Ws :
        /\ sent'[i].message.recipient_id \in DOMAIN user_connections
        /\ user_connections[sent'[i].message.recipient_id] = w
        /\ ws_out'[w] = Append(ws_out[w],
               Frame("encrypted_message", i,
                     IF sent'[i].is_first_message THEN "true" ELSE "false"))

QueuedBySend(i) ==
    /\ \E m \in redis_offline'[sent'[i].message.recipient_id] : m.id = i
    /\ \A m \in redis_offline[sent'[i].message.recipient_id] : m.id # i

C18_WrittenOrQueued ==
    [][Len(sent') = Len(sent) + 1
       => (WrittenBySend(Len(sent')) /\ ~QueuedBySend(Len(sent')))
          \/ (~WrittenBySend(Len(sent')) /\ QueuedBySend(Len(sent')) /\ ws_out' = ws_out)]_vars

C18_Witness ==
    \E i, j \in 1..Len(sent) :
        /\ sent[i].online /\ WrittenTo(sent[i].message.recipient_id, i)
        /\ \A m \in redis_offline[sent[i].message.recipient_id] : m.id # i
        /\ ~sent[j].online
        /\ \E m \in redis_offline[sent[j].message.recipient_id] : m.id = j

\* C19: the envelopes one call of deliver_offline_messages has read and
\* replays head first (ws_drain) are in ascending timestamp order, and
\* envelopes with equal timestamps are in the order in which they were added
\* to the queue.
\* envelope ids are given in the order of the sends, and a send that queues
\* its envelope does so before the next send starts
EnqueuedBefore(i, j) == i < j

C19_ReplayInTimestampThenEnqueueOrder ==
    \A w \in Ws : \A a, b \in 1..Len(ws_drain[w]) :
        a < b
        => \/ ws_drain[w][a].score < ws_drain[w][b].score
           \/ /\ ws_drain[w][a].score = ws_drain[w][b].score
              /\ EnqueuedBefore(ws_drain[w][a].id, ws_drain[w][b].id)

\* C20: on one transport, two envelope frames of the same sender and the same
\* sending chain (the same ratchet public key) are written in strictly
\* increasing message_number, whether they were pushed online or replayed
\* from the offline queue.
EnvelopeFrame(w, k) == ws_out[w][k].type = "encrypted_message"

C20_TransportOrderWithinChain ==
    \A w \in Ws : \A a, b \in 1..Len(ws_out[w]) :
        (/\ a < b
         /\ EnvelopeFrame(w, a) /\ EnvelopeFrame(w, b)
         /\ sent[ws_out[w][a].id].message.sender_id
                = sent[ws_out[w][b].id].message.sender_id
         /\ sent[ws_out[w][a].id].message.recipient_id
                = sent[ws_out[w][b].id].message.recipient_id
         /\ sent[ws_out[w][a].id].message.ephemeral_public_key
                = sent[ws_out[w][b].id].message.ephemeral_public_key)
        => sent[ws_out[w][a].id].message.message_number
               < sent[ws_out[w][b].id].message.message_number

\* C28: a decrypt call that performs no receiving DH ratchet step (the
\* session's remote_public_key is the same before and after) never leaves
\* message_number_recv lower than it found it, whatever envelope was submitted.
NoDhStep(c) ==
    /\ c.pre # << >>
    /\ c.post # << >>
    /\ c.pre[1].remote_public_key = c.post[1].remote_public_key

C28_RecvNumberNeverDecreases ==
    \A u \in Users : \A j \in 1..Len(calls[u]) :
        NoDhStep(calls[u][j])
        => calls[u][j].post[1].message_number_recv
               >= calls[u][j].pre[1].message_number_recv

\* C29: once a decrypt request for an envelope has succeeded, no later request
\* for the same envelope (the same ciphertext, ratchet public key and message
\* number) succeeds; and a decrypt that found its key in skipped_message_keys
\* leaves the cache without that key.
UsedSkippedKey(c) ==
    /\ c.pre # << >>
    /\ SkippedHas(c.pre[1], c.req.ephemeral_public_key, c.req.message_number)

SameEnvelope(c, d) ==
    /\ c.req.sender_id = d.req.sender_id
    /\ c.req.encrypted_content = d.req.encrypted_content
    /\ c.req.ephemeral_public_key = d.req.ephemeral_public_key
    /\ c.req.message_number = d.req.message_number

JumpOverLimit(c) ==
    /\ c.pre # << >>
    /\ c.pre[1].chain_key_recv # None
    /\ c.req.ephemeral_public_key = c.pre[1].remote_public_key
    /\ ~SkippedHas(c.pre[1], c.req.ephemeral_public_key, c.req.message_number)
    /\ c.req.message_number > c.pre[1].message_number_recv + MAX_SKIP

C30_SkipLimitRefusesWithoutChange ==
    /\ \A u \in Users : \A j \in 1..Len(calls[u]) :
          JumpOverLimit(calls[u][j])
          => /\ ~calls[u][j].ok
             /\ calls[u][j].err = "skip"
             /\ calls[u][j].post[1].skipped_message_keys
                    = calls[u][j].pre[1].skipped_message_keys
             /\ calls[u][j].post[1].chain_key_recv = calls[u][j].pre[1].chain_key_recv
    /\ \A u \in DOMAIN users : \A p \in DOMAIN users[u].sessions :
          (/\ users[u].sessions[p].chain_key_recv # None
           /\ users[u].sessions[p].remote_public_key # None)
          => _skip_message_keys(users[u].sessions[p],
                                users[u].sessions[p].remote_public_key,
                                users[u].sessions[p].message_number_recv,
                                users[u].sessions[p].message_number_recv + MAX_SKIP + 1)
                 = [ok |-> FALSE, st |-> users[u].sessions[p]]

C30_Witness ==
    \E u \in Users : \E j \in 1..Len(calls[u]) :
        /\ JumpOverLimit(calls[u][j])
        /\ calls[u][j].pre[1].message_number_recv > 0
        /\ calls[u][j].err = "skip"

\* C26: in every reachable state of the registry, send_to_user(user, frame)
\* (a) returns false and changes nothing when the user has no binding,
\* (b) when the user is bound and the transport write fails, returns false,
\*     writes nothing and leaves neither user -> connection id nor
\*     connection id -> transport of that user,
\* (c) returns true only when the user is bound to a transport that took the
\*     write, and then has appended the frame to that transport and nothing else.
ProbeFrame == Frame("typing", 0, "absent")

C26_SendToUserOutcomes ==
    \A u \in Users :
        LET c == ConnState
            r == send_to_user(c, u, ProbeFrame)
        IN /\ u \notin DOMAIN c.uc => (~r.ok /\ r.c = c)
           /\ (u \in DOMAIN c.uc /\ ~ws_open[c.uc[u]])
                 => /\ ~r.ok
                    /\ r.c.out = c.out
                    /\ u \notin DOMAIN r.c.uc
                    /\ c.uc[u] \notin r.c.ac
           /\ r.ok => /\ u \in DOMAIN c.uc
                      /\ ws_open[c.uc[u]]
                      /\ r.c = [c EXCEPT !.out[c.uc[u]] = Append(@, ProbeFrame)]

\* a failed write has torn a binding down (the task of the transport has not
\* ended yet), a write to a bound user has succeeded, and a user is unbound
C26_Witness ==
    /\ \E w \in Ws :
          /\ ws_user[w] # 0
          /\ ~ws_open[w]
          /\ ws_pc[w] \in {"drain_read", "drain_send", "loop"}
          /\ \A w2 \in Ws \ {w} : ws_user[w2] # ws_user[w]
          /\ ws_user[w] \notin DOMAIN user_connections
          /\ w \notin active_connections
    /\ \E w \in Ws : \E k \in 1..Len(ws_out[w]) : ws_out[w][k].type = "encrypted_message"

\* C21: no directory entry prekey_bundle:{user} and no prekey_bundle frame sent
\* to a client holds a private key (the identity private key, the signed
\* prekey's private half or a one-time prekey's private half) of any user.
PrivateKeys == {<<KeyId(u, i)>> : u \in Users, i \in 0..(1 + PREKEY_BATCH_SIZE)}

\* the byte strings held in the fields of a bundle
BundleValues(b) ==
    {b64decode(b.identity_key)}
    \cup {b64decode(b.signed_prekey[f]) : f \in DOMAIN b.signed_prekey}
    \cup UNION {{b64decode(b.one_time_prekeys[i][f]) : f \in DOMAIN b.one_time_prekeys[i]} :
                   i \in DOMAIN b.one_time_prekeys}

C21_NoPrivateKeyPublished ==
    /\ \A u \in DOMAIN redis_prekey_bundle :
          BundleValues(redis_prekey_bundle[u]) \cap PrivateKeys = {}
    /\ \A x \in PrekeyFrames :
          BundleValues(FrameData(ws_out[x[1]][x[2]])) \cap PrivateKeys = {}

\* C22: a step that ends a failed send_message request of the task of transport
\* w, or performs a failed decrypt_message request of that task, appends the
\* error (decryption_error) frame to w, leaves w bound if it was bound, and
\* leaves the task in its receive loop.
StaysBound(w) ==
    /\ w \in active_connections => w \in active_connections'
    /\ (ws_user[w] \in DOMAIN user_connections /\ user_connections[ws_user[w]] = w)
          => (ws_user[w] \in DOMAIN user_connections'
              /\ user_connections'[ws_user[w]] = w)

FailedSendAnswered(w) ==
    (ws_pc[w] = "reply" /\ ws_pc'[w] # "reply" /\ ws_req[w].type = "error" /\ ws_open[w])
    => /\ ws_out'[w] = Append(ws_out[w], Frame("error", 0, "absent"))
       /\ StaysBound(w)
       /\ ws_pc'[w] = "loop"

FailedDecryptStep(w) ==
    /\ ws_user[w] \in Users
    /\ Len(calls'[ws_user[w]]) = Len(calls[ws_user[w]]) + 1
    /\ calls'[ws_user[w]][Len(calls'[ws_user[w]])].via # << >>
    /\ calls'[ws_user[w]][Len(calls'[ws_user[w]])].via[1] = w
    /\ ~calls'[ws_user[w]][Len(calls'[ws_user[w]])].ok

FailedDecryptAnswered(w) ==
    FailedDecryptStep(w)
    => /\ ws_out'[w] = Append(ws_out[w],
              Frame("decryption_error", calls'[ws_user[w]][Len(calls'[ws_user[w]])].env,
                    "absent"))
       /\ StaysBound(w)
       /\ ws_pc'[w] = "loop"

C22_FailedRequestAnswered ==
    [][\A w \in Ws : FailedSendAnswered(w) /\ FailedDecryptAnswered(w)]_vars

\* C23: a task whose first frame was not auth has written the error frame and
\* nothing else, has ended, and its connection is in neither mapping of the
\* registry; every task that is draining, in its receive loop or replying, and
\* every connection a decrypt_message request was processed on, began with
\* auth (its first frame out is auth_success and it has a user).
Started(w) == ws_pc[w] # "new"

Serving(w) == ws_pc[w] \in {"drain_read", "drain_send", "loop", "reply"}

BeganWithAuth(w) ==
    /\ ws_user[w] \in Users
    /\ Len(ws_out[w]) >= 1
    /\ ws_out[w][1] = Frame("auth_success", ws_user[w], "absent")

C24_ExpiredNotQueuedNorDelivered ==
    \A k \in 1..Len(sweep.log) :
        /\ \A m \in redis_offline[sent[Swept(k).id].message.recipient_id] :
              m.id # Swept(k).id
        /\ \A w \in Ws : \A j \in 1..Len(ws_out[w]) :
              j > Swept(k).frames[w]
              => ~(ws_out[w][j].type = "encrypted_message" /\ ws_out[w][j].id = Swept(k).id)

\* C25: for each message id, each user has been sent at most one
\* message_destroyed frame, over all of the user's transports.
DestroyedFrame(w, k, id) ==
    /\ k \in 1..Len(ws_out[w])
    /\ ws_out[w][k].type = "message_destroyed"
    /\ ws_out[w][k].id = id

C25_DestroyedAtMostOnce ==
    \A id \in 1..Len(sent) : \A w1, w2 \in Ws :
        \A k1 \in 1..Len(ws_out[w1]) : \A k2 \in 1..Len(ws_out[w2]) :
            (/\ DestroyedFrame(w1, k1, id) /\ DestroyedFrame(w2, k2, id)
             /\ ws_user[w1] = ws_user[w2])
            => (w1 = w2 /\ k1 = k2)

\* C27: send_to_user(u, ...) writes to at most one transport; and when u
\* connected on w2 while bound to w1 and has not connected again since, a
\* send_to_user(u, ...) never writes to w1 and, while w2 is open and its task
\* has not ended, writes to w2.
Rebound(w1, w2) ==
    /\ ws_prev[w2] = w1
    /\ \A w3 \in Ws : ws_user[w3] = ws_user[w2] => w3 <= w2

WrittenBy(r) == {w \in Ws : r.c.out[w] # ws_out[w]}

C27_OneBindingNewestTransport ==
    /\ \A u \in Users : Cardinality(WrittenBy(send_to_user(ConnState, u, ProbeFrame))) <= 1
    /\ \A w1, w2 \in Ws :
          Rebound(w1, w2)
          => /\ w1 \notin WrittenBy(send_to_user(ConnState, ws_user[w2], ProbeFrame))
             /\ (ws_open[w2] /\ ws_pc[w2] # "done")
                   => /\ send_to_user(ConnState, ws_user[w2], ProbeFrame).ok
                      /\ WrittenBy(send_to_user(ConnState, ws_user[w2], ProbeFrame)) = {w2}

\* C36: when user u connected on w2 while bound to w1 and the task of w1 ends
\* afterwards, the disconnect of its finally block leaves u bound to w2 and
\* leaves the presence key of u in place.
OldTaskEnds(w1, w2) ==
    /\ Rebound(w1, w2)
    /\ ws_pc[w1] # "done"
    /\ ws_pc'[w1] = "done"
    /\ ws_user[w2] \in DOMAIN user_connections
    /\ user_connections[ws_user[w2]] = w2

C36_OldDisconnectKeepsNewBinding ==
    [][\A w1, w2 \in Ws :
          OldTaskEnds(w1, w2)
          => /\ ws_user[w2] \in DOMAIN user_connections'
             /\ user_connections'[ws_user[w2]] = w2
             /\ w2 \in active_connections'
             /\ (ws_user[w2] \in redis_presence => ws_user[w2] \in redis_presence')]_vars

\* C37: the connection ids in active_connections are exactly the connection
\* ids some user is bound to in user_connections.
BoundConnections == {user_connections[u] : u \in DOMAIN user_connections}

C37_HandlesAreBoundConnections == active_connections = BoundConnections

\* C31: the skipped_message_keys cache of a session never holds more than
\* MAX_SKIP entries, however many decrypt calls skipped within the window.
C31_SkippedCacheBounded ==
    \A u \in DOMAIN users : \A p \in DOMAIN users[u].sessions :
        Cardinality(users[u].sessions[p].skipped_message_keys) <= MAX_SKIP

\* C32: every envelope is encrypted under a message key no earlier envelope
\* of any session was encrypted under, and the send that produced it replaced
\* the chain_key_send of the sender's session by a different chain key.
MessageKey(i) == sent[i].message.encrypted_content.k

SendStep(s, r) ==
    /\ Len(sent') = Len(sent) + 1
    /\ sent'[Len(sent')].message.sender_id = s
    /\ sent'[Len(sent')].message.recipient_id = r

C32_FreshMessageKeyPerSend ==
    [][\A s, r \in Users :
          SendStep(s, r)
          => /\ \A i \in 1..Len(sent) : MessageKey(i) # sent'[Len(sent')].message.encrypted_content.k
             /\ sent'[Len(sent')].message.encrypted_content.k # None
             /\ users'[s].sessions[r].chain_key_send # None
             /\ r \in DOMAIN users[s].sessions
                   => users'[s].sessions[r].chain_key_send
                         # users[s].sessions[r].chain_key_send]_vars

\* three envelopes: two of one sending chain and one of another session
C32_Witness ==
    \E i, j, k \in 1..Len(sent) :
        /\ i < j /\ SameChain(i, j)
        /\ sent[k].message.sender_id # sent[i].message.sender_id
        /\ MessageKey(i) # MessageKey(j) /\ MessageKey(i) # MessageKey(k)

\* C33: every encrypted_message frame written to a transport, pushed online
\* or replayed from the offline queue, has an is_first_message field, and its
\* value is the flag handle_text_message computed for that envelope.
FlagOf(i) == IF sent[i].is_first_message THEN "true" ELSE "false"

C33_FramesCarryFirstFlag ==
    \A w \in Ws : \A k \in 1..Len(ws_out[w]) :
        EnvelopeFrame(w, k) => ws_out[w][k].is_first_message = FlagOf(ws_out[w][k].id)

\* the envelopes sender_id has sent to recipient_id, and the flagged ones
Envelopes(sender_id, recipient_id) ==
    {i \in 1..Len(sent) : /\ sent[i].message.sender_id = sender_id
                          /\ sent[i].message.recipient_id = recipient_id}

Flagged(sender_id, recipient_id) ==
    {i \in Envelopes(sender_id, recipient_id) : sent[i].is_first_message}

\* user_id obtained its session with peer_id by accepting a first message
Responder(user_id, peer_id) ==
    \E j \in 1..Len(calls[user_id]) :
        /\ calls[user_id][j].req.sender_id = peer_id
        /\ peer_id \notin calls[user_id][j].peers_before
        /\ peer_id \in calls[user_id][j].peers_after

\* C34: over the sends of one sender to one recipient, when the sender opened
\* the conversation, exactly one envelope is flagged is_first_message; it has
\* message number 0 and carries the ratchet key of the session that is
\* installed in sender.sessions[recipient]
C34_OneFirstEnvelope ==
    \A s \in DOMAIN users : \A r \in DOMAIN users[s].sessions :
        (Envelopes(s, r) # {} /\ ~Responder(s, r)) =>
            /\ Cardinality(Flagged(s, r)) = 1
            /\ \A i \in Flagged(s, r) :
                  /\ sent[i].message.message_number = 0
                  /\ sent[i].message.ephemeral_public_key
                        = users[s].sessions[r].ratchet_public_key

\* the step in which call t assigns user.sessions[peer]
InstallStep(t) == ~tasks[t].installed /\ tasks'[t].installed

\* C35: a session installed under user.sessions[peer] is never removed, and no
\* call assigns user.sessions[peer] again while it is installed, also when two
\* first sends or two first-message decrypts are suspended at their directory
\* reads
C35_SessionNeverReplaced ==
    [][\A u \in DOMAIN users : \A p \in DOMAIN users[u].sessions :
          /\ u \in DOMAIN users'
          /\ p \in DOMAIN users'[u].sessions
          /\ \A t \in Tasks :
                ~(InstallStep(t) /\ tasks[t].user = u /\ tasks[t].peer = p)]_vars

\* C39: a handle_text_message call that raised inside _establish_sender_session,
\* at the bundle read or at the write of x3dh_ephemeral, has left no session
\* under sender.sessions[recipient]
C39_EstablishAllOrNothing ==
    \A j \in 1..Len(raised) :
        raised[j].err \in {"bundle", "setex"} =>
            raised[j].recipient_id \notin DOMAIN raised[j].after.sessions

\* call j of user u was a decrypt request for a first-message envelope with a
\* changed ciphertext, made when u had no session with the sender, and failed
TamperedFirst(u, j) ==
    /\ calls[u][j].mut = "tamper"
    /\ ~calls[u][j].ok
    /\ calls[u][j].req.is_first_message
    /\ calls[u][j].req.message_number = 0
    /\ calls[u][j].req.sender_id \notin calls[u][j].peers_before

\* C40: after a decrypt request for a first-message envelope failed on a
\* tampered ciphertext, a later request with the unmodified envelope (same
\* ratchet public key, message number 0, is_first_message true) returns the
\* original content
C40_RetryAfterTamperedFirst ==
    \A u \in Users : \A j \in 1..Len(calls[u]) : \A k \in 1..Len(calls[u]) :
        (/\ TamperedFirst(u, j)
         /\ j < k
         /\ calls[u][k].env = calls[u][j].env
         /\ calls[u][k].mut = "none")
        => /\ calls[u][k].ok
           /\ calls[u][k].content = sent[calls[u][k].env].content

\* the recipient of envelope i (0 before it is sent)
RecipientOf(i) == IF i <= Len(sent) THEN sent[i].message.recipient_id ELSE 0

\* envelope i waits in the offline queue of its recipient, who is bound to an
\* open transport, and no frame of it has been written to a transport of the
\* recipient
Pending(i) ==
    /\ i <= Len(sent)
    /\ Writable(ConnState, RecipientOf(i))
    /\ \E m \in redis_offline[RecipientOf(i)] : m.id = i
    /\ ~WrittenTo(RecipientOf(i), i)

\* C38: an envelope whose recipient is bound to an open transport does not stay
\* in the offline queue: it is in the end written to a transport of the
\* recipient, unless the recipient loses the binding, whether or not
\* presence:{recipient} existed when it was sent
C38_BoundRecipientGetsEnvelope ==
    \A i \in 1..MaxQueued :
        Pending(i) ~> (WrittenTo(RecipientOf(i), i) \/ ~Writable(ConnState, RecipientOf(i)))

====
